---- MODULE Spec2Model ----
(***************************************************************************)
(* Authentication state machine of the server: sign-up, sign-in, the 2FA   *)
(* login step, e-mail confirmation, password reset and 2FA management.     *)
(* Time is counted in minutes.  A handler is one atomic action, or, where  *)
(* requests run side by side, one action up to its save and one for it.    *)
(***************************************************************************)
EXTENDS Integers, FiniteSets, Sequences, TLC

VARIABLES
    users,   \* the User collection: account id -> document
    proven,  \* history: account id -> a valid code was submitted to
             \* verifyAndEnableTwoFactor since the stored secret was stored
    jar,     \* tokens the clients hold: account id -> a full / the newest temp
             \* token and, for clients that keep track of it, the temp token
             \* last exchanged for a full one, the reset code mailed last and
             \* the one mailed before it
    now,     \* the server's clock, in minutes
    last,    \* the request handled last and the response written to it
    inflight \* handlers between their find and their save: handler -> what
             \* it read and was asked

vars == <<users, proven, jar, now, last, inflight>>

----------------------------------------------------------------------------
\* Bounds of the model.

\* The number of times the clock advances, and in the behaviours that
\* follow a password reset code to its expiry.
MaxTicks == 2
MaxTicksLong == 5

\* The instants at which requests arrive, in minutes: the 5- and 15-minute
\* expiries of what was issued at an earlier instant fall on them or just
\* before them.
Instants == <<0, 5, 6, 10, 15, 16, 20, 21>>

----------------------------------------------------------------------------
\* Program constants (minutes, HTTP status codes).

VerifyCodeTtl == 5
ResetCodeTtl == 15
TempTokenTtl == 5
FullTokenTtl == 60
TotpStepsPerMinute == 2
TotpWindow == 1
\* The denominator of the values Math.random() is sampled at.
RandomScale == 1000

OK == 200
CREATED == 201
BAD_REQUEST == 400
UNAUTHORIZED == 401
FORBIDDEN == 403
NOT_FOUND == 404
CONFLICT == 409
INTERNAL_ERROR == 500
\* No response written: the middleware called next().
NEXT == 0

\* A Date field that is not set (undefined).
NoDate == -1

----------------------------------------------------------------------------
\* Value domains.

Undefined == "undefined"

\* Well-formed e-mail addresses; an account's id is its e-mail.
Emails == {"alice@example.com", "bob@example.com"}
\* The addresses that sign up.
SignUpEmails == {"alice@example.com"}
\* An address that fails isEmail().
BadEmail == "not-an-email"

\* Passwords that satisfy the sign-up policy.
Passwords == {"Str0ng!Pass", "N3w!Passw0rd"}
\* A non-empty password that fails the policy, and a missing one.
WeakPassword == "weak"
NoPassword == ""

\* Math.random() returns a number in [0, 1): the values drawn, in
\* thousandths.
RandomSamples == {0, 999}

\* Math.floor(100000 + Math.random() * 900000)
randomCode(r) == 100000 + (r * 900000) \div RandomScale

\* The codes the handlers generate, as stored and mailed (toString()).
GeneratedCodes == {ToString(randomCode(r)) : r \in RandomSamples}
\* A code field missing from the body.
NoCode == Undefined

\* Values speakeasy.generateSecret may return (base32).
Secrets == {"JBSWY3DP", "KRSXG5AK"}

UserRoleADMIN == "ADMIN"
UserRoleUSER == "USER"
UserRole == {UserRoleADMIN, UserRoleUSER}
\* A body without a role field.
NoRole == Undefined

Scope2fa == "2fa"

\* The issuer the access-token configuration names.
jwtConfigIssuer == "api-server"

----------------------------------------------------------------------------
\* Credential hasher (argon2).

\* Fault variant: the password is stored as it was sent.
hash_Plain(plain) == plain

\* argon2.hash: an encoded hash, never the text it was made of.
hash(plain) == "$argon2id$" \o plain

verify(hashed, plain) == hashed = hash(plain)

----------------------------------------------------------------------------
\* Input validation (express-validator chains).

isEmail(e) == e \in Emails

isStrongPassword(p) == p \in Passwords

validateSignInInput(email, password) == isEmail(email) /\ isStrongPassword(password)

validateLoginInput(email, password) == isEmail(email) /\ password # NoPassword

validateRequestPasswordReset(email) == isEmail(email)

validateResetPassword(token, new_password) ==
    token # NoCode /\ isStrongPassword(new_password)

----------------------------------------------------------------------------
\* Tokens (jsonwebtoken).  A token is what jwt.sign put in it plus whether its
\* signature verifies: only the server can make a token with sig = "valid".

NoToken ==
    [sig |-> "absent", userId |-> Undefined, scope |-> Undefined, iss |-> Undefined,
     iat |-> 0, exp |-> 0]

GarbageToken ==
    [sig |-> "invalid", userId |-> Undefined, scope |-> Undefined, iss |-> Undefined,
     iat |-> 0, exp |-> 0]

\* jwt.sign(payload, secret, { expiresIn }): no issuer option is passed, so
\* the token has no iss claim.
generateToken(userId, scope, expiresIn) ==
    [sig |-> "valid", userId |-> userId, scope |-> scope, iss |-> Undefined,
     iat |-> now, exp |-> now + expiresIn]

\* Fault variant: the temporary token is signed without a scope.
TempTokenScope_Missing == Undefined

\* The scope the sign-in handler puts in a temporary token.
TempTokenScope == Scope2fa

\* Fault variant: the expiry of a token is not looked at.
verifyToken_NoExpiry(token) ==
    IF token.sig # "valid" THEN [ok |-> FALSE, error |-> "JsonWebTokenError"]
    ELSE [ok |-> TRUE, error |-> "none"]

\* jwt.verify: the decoded payload, or the error it throws.
verifyToken(token) ==
    IF token.sig # "valid" THEN [ok |-> FALSE, error |-> "JsonWebTokenError"]
    ELSE IF now >= token.exp THEN [ok |-> FALSE, error |-> "TokenExpiredError"]
    ELSE [ok |-> TRUE, error |-> "none"]

----------------------------------------------------------------------------
\* TOTP (speakeasy).  The code of a secret for a time step.

totp(secret, step) == <<secret, step>>

currentStep == now * TotpStepsPerMinute

\* Fault variant: the steps two away from the current one are accepted too.
totpVerify_Wide(secret, token, window) ==
    \E d \in (0 - window - 1)..(window + 1) : token = totp(secret, currentStep + d)

\* speakeasy.totp.verify({secret, encoding, token, window})
totpVerify(secret, token, window) ==
    \E d \in (0 - window)..window : token = totp(secret, currentStep + d)

NoTotp == <<"", 0>>

\* The steps, relative to the current one, whose codes are submitted.
TotpOffsets == {-2, -1, 0, 1, 2}

----------------------------------------------------------------------------
\* Documents and responses.

NoSecret == Undefined

\* new User({...}) in createUser, with the schema's defaults.
NewUser(email, hashedPassword, verificationCode) ==
    [email |-> email,
     password |-> hashedPassword,
     role |-> UserRoleUSER,
     is_premium |-> FALSE,
     is_verified |-> FALSE,
     verify_email_token |-> verificationCode,
     verify_email_token_expires |-> now + VerifyCodeTtl,
     reset_password_token |-> Undefined,
     reset_password_token_expires |-> NoDate,
     two_factor |-> [enabled |-> FALSE, secret |-> NoSecret]]

\* What a response carries: the status, the message of the body, the token of
\* the body, the cookie set, the temporary token of the body, whether the body
\* holds the user document and with its password hash, and the code mailed
\* while handling.
Response(status, token, cookie, tempToken, user, mailed) ==
    [status |-> status, message |-> Undefined, token |-> token, cookie |-> cookie,
     tempToken |-> tempToken, user |-> user, mailed |-> mailed]

\* The response with the message of its body.
Said(res, message) == [res EXCEPT !.message = message]

errorApiResponse(status) ==
    Response(status, NoToken, NoToken, NoToken, "none", NoCode)

\* What goes wrong while a request is handled.
NoFailure == "none"
ReferrerFailure == "referrer lookup"
SaveFailure == "save"
CommitFailure == "commitTransaction"
MailFailure == "sendMail"

\* What the handling of a request wrote to the error log.
NothingLogged == "none"
HandlerError == "Error in handler"
UnhandledRejection == "UNHANDLED REJECTION"

\* A request as handled: the operation, the account it addressed, its
\* inputs, the expiry date the handler compared the clock with (NoDate when
\* it compared none), what went wrong, what was logged, the statuses of the
\* res.status(..).json(..) calls made in their order, and the response the
\* client got (the one of the first call).
NoRequest ==
    [op |-> "none", email |-> Undefined, password |-> NoPassword,
     code |-> NoCode, totp |-> NoTotp, bearer |-> NoToken, expires |-> NoDate,
     failure |-> NoFailure, logged |-> NothingLogged, roles |-> {},
     role |-> NoRole, again |-> FALSE, written |-> <<>>,
     res |-> errorApiResponse(NEXT)]

Request(op, email, password, code, totpCode, bearer, res) ==
    [op |-> op, email |-> email, password |-> password, code |-> code,
     totp |-> totpCode, bearer |-> bearer, expires |-> NoDate,
     failure |-> NoFailure, logged |-> NothingLogged, roles |-> {},
     role |-> NoRole, again |-> FALSE,
     written |-> IF res.status = NEXT THEN <<>> ELSE <<res.status>>,
     res |-> res]

Compared(req, expires) == [req EXCEPT !.expires = expires]

\* The request with the role field of its body.
Asked(req, role) == [req EXCEPT !.role = role]

\* The request with the roles the gate it went through lets pass.
Required(req, requiredRoles) == [req EXCEPT !.roles = requiredRoles]

\* The request with what went wrong while it was handled and what the
\* handling logged.
Failed(req, failure, logged) == [req EXCEPT !.failure = failure, !.logged = logged]

\* The process after the unhandledRejection handler of the server ran: the
\* server is closed and the process exits.
Shutdown == [NoRequest EXCEPT !.op = "shutdown"]

\* What a client does with the tokens of a response: it keeps the full-access
\* token it holds while that one is valid, and the newest temporary token.
Keep(res) ==
    LET full == IF res.cookie.sig = "valid" THEN res.cookie ELSE res.token
        tmp == res.tempToken
        j1 == IF full.sig = "valid" /\ ~verifyToken(jar[full.userId].full).ok
              THEN [jar EXCEPT ![full.userId].full = full] ELSE jar
    IN IF tmp.sig = "valid" THEN [j1 EXCEPT ![tmp.userId].temp = tmp] ELSE j1

\* The client has exchanged a temporary token for a full-access one: a
\* client that keeps track of it notes the token.
Exchanged(held, tempToken, res) ==
    IF res.status = OK /\ "spent" \in DOMAIN held[tempToken.userId]
    THEN [held EXCEPT ![tempToken.userId].spent = tempToken]
    ELSE held

\* The client presents a temporary token it has noted as exchanged.
Spent(tempToken) ==
    /\ tempToken.sig = "valid"
    /\ tempToken.userId \in DOMAIN jar
    /\ "spent" \in DOMAIN jar[tempToken.userId]
    /\ jar[tempToken.userId].spent = tempToken

\* The owner of an address is mailed a reset code: a client that keeps track
\* of it notes the code, and the one it replaces as the earlier one.
Received(held, email, res) ==
    IF /\ res.status = OK
       /\ res.mailed # NoCode
       /\ "code" \in DOMAIN held[email]
    THEN [held EXCEPT ![email].earlier = held[email].code, ![email].code = res.mailed]
    ELSE held

\* The request with whether its temporary token was exchanged before.
Again(req, spent) == [req EXCEPT !.again = spent]

\* The request with the res.status(..).json(..) calls made while handling it.
Wrote(req, written) == [req EXCEPT !.written = written]

----------------------------------------------------------------------------
Init ==
    /\ users = <<>>
    /\ proven = [e \in Emails |-> FALSE]
    /\ jar = [e \in Emails |-> [full |-> NoToken, temp |-> NoToken]]
    /\ now = 0
    /\ last = NoRequest
    /\ inflight = <<>>

\* The clock advances to the next instant of the schedule.  It is read from
\* the first sign-up on: nothing stored before depends on it.
Advance(maxTicks) ==
    /\ last = NoRequest
    /\ DOMAIN users # {}
    /\ \E i \in 1..maxTicks : now = Instants[i] /\ now' = Instants[i + 1]
    /\ last' = NoRequest
    /\ UNCHANGED <<users, proven, jar, inflight>>

Tick == Advance(MaxTicks)

\* The state after construction, with clients that keep track of the
\* temporary token they exchanged.
InitTracking ==
    /\ users = <<>>
    /\ proven = [e \in Emails |-> FALSE]
    /\ jar = [e \in Emails |-> [full |-> NoToken, temp |-> NoToken, spent |-> NoToken,
                               code |-> NoCode, earlier |-> NoCode]]
    /\ now = 0
    /\ last = NoRequest
    /\ inflight = <<>>

TickLong == Advance(MaxTicksLong)

----------------------------------------------------------------------------
\* Fault variant: the rejection of a send is swallowed.
mailLog_Silent(failure) == NothingLogged

\* What a handler that dispatched a mail has logged when its response is
\* out: transporter.sendMail is not awaited, and its rejection reaches the
\* unhandledRejection handler of the server.
mailLog(failure) == IF failure = MailFailure THEN UnhandledRejection ELSE NothingLogged

\* The code a dispatched mail delivers.
delivered(code, failure) == IF failure = MailFailure THEN NoCode ELSE code

\* Fault variant: an address is never found taken.
emailTaken_Never(email) == FALSE

\* User.findOne({ email }) finds an account.
emailTaken(email) == email \in DOMAIN users

\* The response of a sign-up whose commitTransaction threw: the mail is out
\* and res.cookie was called before the commit, and the catch block answers
\* on the same response object.
signUpAborted(token, verificationCode) ==
    Response(INTERNAL_ERROR, NoToken, token, NoToken, "none", verificationCode)

\* Fault variant: a role in the body becomes the role of the account.
signUpRole_FromBody(role) == IF role = NoRole THEN UserRoleUSER ELSE role

\* The role of a new account: createUser passes no role of the body to
\* new User, and the schema's default applies.
signUpRole(role) == UserRoleUSER

\* POST /sign-up
createUser(email, password, role, verificationCode, failure) ==
    LET token == generateToken(email, Undefined, FullTokenTtl)
        user == [NewUser(email, hash(password), verificationCode)
                     EXCEPT !.role = signUpRole(role)]
        ran == validateSignInInput(email, password) /\ ~emailTaken(email)
        thrown == ran /\ failure \in {ReferrerFailure, SaveFailure, CommitFailure}
        res == IF ~validateSignInInput(email, password)
               THEN errorApiResponse(BAD_REQUEST)
               ELSE IF emailTaken(email)
               THEN Said(errorApiResponse(CONFLICT), "Email already exists")
               ELSE IF failure \in {ReferrerFailure, SaveFailure}
               THEN errorApiResponse(INTERNAL_ERROR)
               ELSE IF failure = CommitFailure
               THEN signUpAborted(token, delivered(verificationCode, failure))
               ELSE Response(CREATED, token, token, NoToken, "noPassword",
                             delivered(verificationCode, failure))
    IN /\ users' = IF ran /\ ~thrown THEN (email :> user) @@ users ELSE users
       /\ jar' = Keep(res)
       /\ last' = Failed(Asked(Request("createUser", email, password, NoCode, NoTotp,
                                       NoToken, res),
                               role),
                         IF ran THEN failure ELSE NoFailure,
                         IF thrown THEN HandlerError
                         ELSE IF ran THEN mailLog(failure) ELSE NothingLogged)
       /\ UNCHANGED <<proven, now, inflight>>

\* Fault variant: the response also sets a full-access cookie.
twoFactorRequired_WithCookie(tempToken) ==
    Response(OK, NoToken, generateToken(tempToken.userId, Undefined, FullTokenTtl),
             tempToken, "none", NoCode)

\* The sign-in response that starts the two-step verification.
twoFactorRequired(tempToken) ==
    Response(OK, NoToken, NoToken, tempToken, "none", NoCode)

\* The sign-in response when no account has the address.
unknownEmail == Said(errorApiResponse(UNAUTHORIZED), "Invalid email or password")

\* Fault variant: the password mismatch has a message of its own.
wrongPassword_Telling == Said(errorApiResponse(UNAUTHORIZED), "Incorrect password")

\* The sign-in response when the password does not verify.
wrongPassword == Said(errorApiResponse(UNAUTHORIZED), "Invalid email or password")

\* POST /sign-in
loginUser(email, password) ==
    LET user == users[email]
        istwo_factorEnabled == user.two_factor.enabled
        mandatoryRoles == {UserRoleADMIN, UserRoleUSER}
        token == generateToken(email, Undefined, FullTokenTtl)
        tempToken == generateToken(email, TempTokenScope, TempTokenTtl)
        res == IF ~validateLoginInput(email, password)
               THEN errorApiResponse(BAD_REQUEST)
               ELSE IF email \notin DOMAIN users
               THEN unknownEmail
               ELSE IF ~verify(user.password, password)
               THEN wrongPassword
               ELSE IF user.role \in mandatoryRoles /\ ~istwo_factorEnabled
               THEN Response(CREATED, NoToken, token, NoToken, "withPassword", NoCode)
               ELSE IF istwo_factorEnabled
               THEN twoFactorRequired(tempToken)
               ELSE Response(OK, token, token, NoToken, "noPassword", NoCode)
    IN /\ jar' = Keep(res)
       /\ last' = Request("loginUser", email, password, NoCode, NoTotp, NoToken, res)
       /\ UNCHANGED <<users, proven, now, inflight>>

----------------------------------------------------------------------------
\* The token gate in front of the protected routes (authMiddleware): the
\* status it answers with, or NEXT when it lets the request through with
\* req.user.userId set from the token.
authMiddleware(bearer) ==
    IF bearer.sig = "absent" THEN UNAUTHORIZED
    ELSE IF ~verifyToken(bearer).ok THEN UNAUTHORIZED
    ELSE IF bearer.scope = Scope2fa THEN FORBIDDEN
    ELSE NEXT

\* Fault variant: the scope is not looked at.
hasTwoFactorScope_Any(decoded) == TRUE

\* The scope test of the 2FA login step.
hasTwoFactorScope(decoded) == decoded.scope = Scope2fa

\* Fault variant: a stored secret is enough, enabled or not.
twoFactorNotConfigured_SecretOnly(user) == user.two_factor.secret = NoSecret

\* The test the 2FA login step answers "2FA is not enabled" with.
twoFactorNotConfigured(user) ==
    ~user.two_factor.enabled \/ user.two_factor.secret = NoSecret

\* POST /2fa/verify-login
verifyLoginWithTwoFactor(tempToken, two_factorToken) ==
    LET decoded == tempToken
        user == users[decoded.userId]
        finalToken == generateToken(decoded.userId, Undefined, FullTokenTtl)
        res == IF tempToken.sig = "absent" \/ two_factorToken = NoTotp
               THEN errorApiResponse(BAD_REQUEST)
               ELSE IF ~verifyToken(tempToken).ok
               THEN errorApiResponse(UNAUTHORIZED)
               ELSE IF ~hasTwoFactorScope(decoded)
               THEN errorApiResponse(FORBIDDEN)
               ELSE IF decoded.userId \notin DOMAIN users \/ twoFactorNotConfigured(user)
               THEN errorApiResponse(BAD_REQUEST)
               ELSE IF ~totpVerify(user.two_factor.secret, two_factorToken, TotpWindow)
               THEN errorApiResponse(UNAUTHORIZED)
               ELSE Response(OK, finalToken, finalToken, NoToken, "noPassword", NoCode)
    IN /\ jar' = Exchanged(Keep(res), tempToken, res)
       /\ last' = Again(Request("verifyLoginWithTwoFactor", tempToken.userId,
                               NoPassword, NoCode, two_factorToken, tempToken, res),
                       Spent(tempToken))
       /\ UNCHANGED <<users, proven, now, inflight>>

\* Fault variant: a submission at the expiry instant is rejected too.
invalidOrExpired_AtExpiry(user, verificationCode) ==
    \/ user.verify_email_token # verificationCode
    \/ user.verify_email_token_expires = NoDate
    \/ now >= user.verify_email_token_expires

\* The test confirmEmail rejects a submission with.
invalidOrExpired(user, verificationCode) ==
    \/ user.verify_email_token # verificationCode
    \/ user.verify_email_token_expires = NoDate
    \/ now > user.verify_email_token_expires

\* Fault variant: a rejected submission uses the stored code up.
afterConfirm_Burning(user, rejected) ==
    IF rejected
    THEN [user EXCEPT !.verify_email_token = Undefined,
                      !.verify_email_token_expires = NoDate]
    ELSE [user EXCEPT !.is_verified = TRUE,
                      !.verify_email_token = Undefined,
                      !.verify_email_token_expires = NoDate]

\* The account as confirmEmail leaves it: a rejected submission returns
\* before anything is assigned, an accepted one is saved verified and without
\* its code.
afterConfirm(user, rejected) ==
    IF rejected THEN user
    ELSE [user EXCEPT !.is_verified = TRUE,
                      !.verify_email_token = Undefined,
                      !.verify_email_token_expires = NoDate]

\* POST /confirm-email
confirmEmail(bearer, verificationCode, failure) ==
    LET gate == authMiddleware(bearer)
        userId == bearer.userId
        user == users[userId]
        rejected == invalidOrExpired(user, verificationCode)
        res == IF gate # NEXT THEN errorApiResponse(gate)
               ELSE IF userId \notin DOMAIN users THEN errorApiResponse(NOT_FOUND)
               ELSE IF rejected THEN errorApiResponse(UNAUTHORIZED)
               ELSE Response(OK, NoToken, NoToken, NoToken, "noPassword", NoCode)
    IN /\ users' = IF gate = NEXT /\ userId \in DOMAIN users
                   THEN [users EXCEPT ![userId] = afterConfirm(user, rejected)]
                   ELSE users
       /\ last' = Failed(Compared(Request("confirmEmail", userId, NoPassword,
                                          verificationCode, NoTotp, bearer, res),
                                  IF gate = NEXT /\ userId \in DOMAIN users
                                  THEN user.verify_email_token_expires ELSE NoDate),
                         IF res.status = OK THEN failure ELSE NoFailure,
                         IF res.status = OK THEN mailLog(failure) ELSE NothingLogged)
       /\ UNCHANGED <<proven, jar, now, inflight>>

\* Fault variant: the new code keeps the expiry of the one it replaces.
withVerifyCode_ExpiryKept(user, verificationCode) ==
    [user EXCEPT !.verify_email_token = verificationCode]

\* The account regenerateEmailCode saves: the new code, valid for 5 minutes.
withVerifyCode(user, verificationCode) ==
    [user EXCEPT !.verify_email_token = verificationCode,
                 !.verify_email_token_expires = now + VerifyCodeTtl]

\* GET /regenerate-email-code
regenerateEmailCode(bearer, verificationCode, failure) ==
    LET gate == authMiddleware(bearer)
        userId == bearer.userId
        user == users[userId]
        saved == withVerifyCode(user, verificationCode)
        res == IF gate # NEXT THEN errorApiResponse(gate)
               ELSE IF userId \notin DOMAIN users THEN errorApiResponse(NOT_FOUND)
               ELSE IF user.is_verified THEN errorApiResponse(BAD_REQUEST)
               ELSE Response(OK, NoToken, NoToken, NoToken, "none",
                             delivered(verificationCode, failure))
    IN /\ users' = IF res.status = OK THEN [users EXCEPT ![userId] = saved] ELSE users
       /\ last' = Failed(Request("regenerateEmailCode", userId, NoPassword, NoCode,
                                 NoTotp, bearer, res),
                         IF res.status = OK THEN failure ELSE NoFailure,
                         IF res.status = OK THEN mailLog(failure) ELSE NothingLogged)
       /\ UNCHANGED <<proven, jar, now, inflight>>

\* POST /request-password-reset
requestPasswordReset(email, resetToken, failure) ==
    LET user == users[email]
        saved == [user EXCEPT !.reset_password_token = resetToken,
                              !.reset_password_token_expires = now + ResetCodeTtl]
        res == IF ~validateRequestPasswordReset(email)
               THEN errorApiResponse(BAD_REQUEST)
               ELSE IF email \notin DOMAIN users
               THEN Said(errorApiResponse(NOT_FOUND), "User not found")
               ELSE Said(Response(OK, NoToken, NoToken, NoToken, "none",
                                  delivered(resetToken, failure)),
                         "Password reset instructions sent to your email")
    IN /\ users' = IF res.status = OK THEN [users EXCEPT ![email] = saved] ELSE users
       /\ jar' = Received(jar, email, res)
       /\ last' = Failed(Request("requestPasswordReset", email, NoPassword, NoCode,
                                 NoTotp, NoToken, res),
                         IF res.status = OK THEN failure ELSE NoFailure,
                         IF res.status = OK THEN mailLog(failure) ELSE NothingLogged)
       /\ UNCHANGED <<proven, now, inflight>>

\* Fault variant: a code is still found at its expiry instant.
findByResetToken_AtExpiry(token) ==
    {id \in DOMAIN users :
        /\ users[id].reset_password_token = token
        /\ users[id].reset_password_token_expires # NoDate
        /\ users[id].reset_password_token_expires >= now}

\* User.findOne({reset_password_token: token,
\*               reset_password_token_expires: {$gt: new Date()}})
findByResetToken(token) ==
    {id \in DOMAIN users :
        /\ users[id].reset_password_token = token
        /\ users[id].reset_password_token_expires # NoDate
        /\ users[id].reset_password_token_expires > now}

\* Fault variant: the reset code stays on the account.
withNewPassword_CodeKept(user, hashedPassword) ==
    [user EXCEPT !.password = hashedPassword]

\* Fault variant: the code is consumed and the password left as it was.
withNewPassword_Unchanged(user, hashedPassword) ==
    [user EXCEPT !.reset_password_token = Undefined,
                 !.reset_password_token_expires = NoDate]

\* Fault variant: the reset saves the account as not verified.
withNewPassword_Unverifying(user, hashedPassword) ==
    [user EXCEPT !.password = hashedPassword,
                 !.is_verified = FALSE,
                 !.reset_password_token = Undefined,
                 !.reset_password_token_expires = NoDate]

\* The account resetPassword saves: the new hash, the reset fields cleared.
withNewPassword(user, hashedPassword) ==
    [user EXCEPT !.password = hashedPassword,
                 !.reset_password_token = Undefined,
                 !.reset_password_token_expires = NoDate]

\* POST /reset-password
resetPassword(token, new_password) ==
    LET found == findByResetToken(token)
    IN IF validateResetPassword(token, new_password) /\ found # {}
       THEN \E id \in found :
               /\ users' = [users EXCEPT ![id] = withNewPassword(@, hash(new_password))]
               /\ last' = Compared(Request("resetPassword", id, new_password, token,
                                           NoTotp, NoToken,
                                           Response(OK, NoToken, NoToken, NoToken,
                                                    "none", NoCode)),
                                   users[id].reset_password_token_expires)
               /\ UNCHANGED <<proven, jar, now, inflight>>
       ELSE /\ last' = Request("resetPassword", Undefined, new_password, token,
                               NoTotp, NoToken, errorApiResponse(BAD_REQUEST))
            /\ UNCHANGED <<users, proven, jar, now, inflight>>

----------------------------------------------------------------------------
\* Fault variant: storing the secret switches 2FA on.
storeSecret_Enabling(user, secret) ==
    [user EXCEPT !.two_factor = [enabled |-> TRUE, secret |-> secret]]

\* user.security.two_factor.secret = secret
storeSecret(user, secret) == [user EXCEPT !.two_factor.secret = secret]

\* POST /profile/2fa/generate
generateTwoFactorSecret(bearer, secret) ==
    LET gate == authMiddleware(bearer)
        userId == bearer.userId
        res == IF gate # NEXT THEN errorApiResponse(gate)
               ELSE IF userId \notin DOMAIN users THEN errorApiResponse(NOT_FOUND)
               ELSE Response(OK, NoToken, NoToken, NoToken, "none", NoCode)
    IN /\ users' = IF res.status = OK
                   THEN [users EXCEPT ![userId] = storeSecret(@, secret)]
                   ELSE users
       /\ proven' = IF res.status = OK THEN [proven EXCEPT ![userId] = FALSE]
                    ELSE proven
       /\ last' = Request("generateTwoFactorSecret", userId, NoPassword, secret,
                          NoTotp, bearer, res)
       /\ UNCHANGED <<jar, now, inflight>>

\* POST /profile/2fa/verify
verifyAndEnableTwoFactor(bearer, token) ==
    LET gate == authMiddleware(bearer)
        userId == bearer.userId
        user == users[userId]
        res == IF gate # NEXT THEN errorApiResponse(gate)
               ELSE IF token = NoTotp THEN errorApiResponse(BAD_REQUEST)
               ELSE IF userId \notin DOMAIN users \/ user.two_factor.secret = NoSecret
               THEN errorApiResponse(NOT_FOUND)
               ELSE IF ~totpVerify(user.two_factor.secret, token, TotpWindow)
               THEN errorApiResponse(UNAUTHORIZED)
               ELSE Response(OK, NoToken, NoToken, NoToken, "none", NoCode)
    IN /\ users' = IF res.status = OK
                   THEN [users EXCEPT ![userId].two_factor.enabled = TRUE]
                   ELSE users
       /\ proven' = IF res.status = OK THEN [proven EXCEPT ![userId] = TRUE]
                    ELSE proven
       /\ last' = Request("verifyAndEnableTwoFactor", userId, NoPassword, NoCode,
                          token, bearer, res)
       /\ UNCHANGED <<jar, now, inflight>>

\* Fault variant: the secret is left in place.
clearTwoFactor_KeepSecret(user) == [user EXCEPT !.two_factor.enabled = FALSE]

\* enabled = false; secret = undefined
clearTwoFactor(user) ==
    [user EXCEPT !.two_factor = [enabled |-> FALSE, secret |-> NoSecret]]

\* POST /profile/2fa/disable
disableTwoFactor(bearer, password) ==
    LET gate == authMiddleware(bearer)
        userId == bearer.userId
        user == users[userId]
        res == IF gate # NEXT THEN errorApiResponse(gate)
               ELSE IF password = NoPassword THEN errorApiResponse(BAD_REQUEST)
               ELSE IF userId \notin DOMAIN users THEN errorApiResponse(NOT_FOUND)
               ELSE IF ~verify(user.password, password)
               THEN errorApiResponse(UNAUTHORIZED)
               ELSE Response(OK, NoToken, NoToken, NoToken, "none", NoCode)
    IN /\ users' = IF res.status = OK
                   THEN [users EXCEPT ![userId] = clearTwoFactor(@)]
                   ELSE users
       /\ proven' = IF res.status = OK THEN [proven EXCEPT ![userId] = FALSE]
                    ELSE proven
       /\ last' = Request("disableTwoFactor", userId, password, NoCode, NoTotp,
                          bearer, res)
       /\ UNCHANGED <<jar, now, inflight>>

----------------------------------------------------------------------------
\* The 2FA management handlers as they run side by side: a handler reads the
\* account (findById), decides on what it read, and its save writes the paths
\* it changed on the document it read, whatever the store holds by then.

\* document.save(): the update of the changed two_factor paths.
saveModified(stored, loaded, changed) ==
    [stored EXCEPT
        !.two_factor.enabled =
            IF changed.two_factor.enabled # loaded.two_factor.enabled
            THEN changed.two_factor.enabled ELSE @,
        !.two_factor.secret =
            IF changed.two_factor.secret # loaded.two_factor.secret
            THEN changed.two_factor.secret ELSE @]

\* A handler that has read its account and not saved yet.
Loaded(bearer, password, code, totpCode) ==
    [bearer |-> bearer, loaded |-> users[bearer.userId], password |-> password,
     code |-> code, totp |-> totpCode]

\* verifyAndEnableTwoFactor up to its save: it answers an error at once, or
\* holds the account it read and the code it verified against it.
verifyAndEnableTwoFactor_find(bearer, token) ==
    LET op == "verifyAndEnableTwoFactor"
        userId == bearer.userId
        verified == /\ authMiddleware(bearer) = NEXT
                    /\ token # NoTotp
                    /\ userId \in DOMAIN users
                    /\ users[userId].two_factor.secret # NoSecret
                    /\ totpVerify(users[userId].two_factor.secret, token, TotpWindow)
    IN /\ op \notin DOMAIN inflight
       /\ IF verified
          THEN /\ inflight' = (op :> Loaded(bearer, NoPassword, NoCode, token)) @@ inflight
               /\ UNCHANGED <<users, proven, jar, now, last>>
          ELSE verifyAndEnableTwoFactor(bearer, token)

\* user.security.two_factor.enabled = true; await user.save()
verifyAndEnableTwoFactor_save ==
    LET op == "verifyAndEnableTwoFactor"
        h == inflight[op]
        userId == h.bearer.userId
        changed == [h.loaded EXCEPT !.two_factor.enabled = TRUE]
    IN /\ op \in DOMAIN inflight
       /\ users' = [users EXCEPT ![userId] = saveModified(@, h.loaded, changed)]
       /\ proven' = [proven EXCEPT ![userId] = TRUE]
       /\ inflight' = [o \in DOMAIN inflight \ {op} |-> inflight[o]]
       /\ last' = Request(op, userId, NoPassword, NoCode, h.totp, h.bearer,
                          Response(OK, NoToken, NoToken, NoToken, "none", NoCode))
       /\ UNCHANGED <<jar, now>>

\* disableTwoFactor up to its save.
disableTwoFactor_find(bearer, password) ==
    LET op == "disableTwoFactor"
        userId == bearer.userId
        verified == /\ authMiddleware(bearer) = NEXT
                    /\ password # NoPassword
                    /\ userId \in DOMAIN users
                    /\ verify(users[userId].password, password)
    IN /\ op \notin DOMAIN inflight
       /\ IF verified
          THEN /\ inflight' = (op :> Loaded(bearer, password, NoCode, NoTotp)) @@ inflight
               /\ UNCHANGED <<users, proven, jar, now, last>>
          ELSE disableTwoFactor(bearer, password)

\* enabled = false; secret = undefined; await user.save()
disableTwoFactor_save ==
    LET op == "disableTwoFactor"
        h == inflight[op]
        userId == h.bearer.userId
    IN /\ op \in DOMAIN inflight
       /\ users' = [users EXCEPT
                      ![userId] = saveModified(@, h.loaded, clearTwoFactor(h.loaded))]
       /\ proven' = [proven EXCEPT ![userId] = FALSE]
       /\ inflight' = [o \in DOMAIN inflight \ {op} |-> inflight[o]]
       /\ last' = Request(op, userId, h.password, NoCode, NoTotp, h.bearer,
                          Response(OK, NoToken, NoToken, NoToken, "none", NoCode))
       /\ UNCHANGED <<jar, now>>

\* generateTwoFactorSecret up to its save.
generateTwoFactorSecret_find(bearer, secret) ==
    LET op == "generateTwoFactorSecret"
        userId == bearer.userId
        found == authMiddleware(bearer) = NEXT /\ userId \in DOMAIN users
    IN /\ op \notin DOMAIN inflight
       /\ IF found
          THEN /\ inflight' = (op :> Loaded(bearer, NoPassword, secret, NoTotp)) @@ inflight
               /\ UNCHANGED <<users, proven, jar, now, last>>
          ELSE generateTwoFactorSecret(bearer, secret)

\* user.security.two_factor.secret = secret; await user.save()
generateTwoFactorSecret_save ==
    LET op == "generateTwoFactorSecret"
        h == inflight[op]
        userId == h.bearer.userId
    IN /\ op \in DOMAIN inflight
       /\ users' = [users EXCEPT
                      ![userId] = saveModified(@, h.loaded, storeSecret(h.loaded, h.code))]
       /\ proven' = [proven EXCEPT ![userId] = FALSE]
       /\ inflight' = [o \in DOMAIN inflight \ {op} |-> inflight[o]]
       /\ last' = Request(op, userId, NoPassword, h.code, NoTotp, h.bearer,
                          Response(OK, NoToken, NoToken, NoToken, "none", NoCode))
       /\ UNCHANGED <<jar, now>>

----------------------------------------------------------------------------
\* The handlers of the codes, of the password and of sign-up as they run side
\* by side.  Two requests of one handler may be in flight.
Slots == {1, 2}

\* The key of a request in flight.
Slot(op, k) == op \o "#" \o ToString(k)

\* A handler that has read the account id and not saved yet.
Read(id, document, password, code) ==
    [bearer |-> NoToken, id |-> id, loaded |-> document, password |-> password,
     code |-> code, totp |-> NoTotp]

\* The request leaves the set of those in flight.
Done(key) == [o \in DOMAIN inflight \ {key} |-> inflight[o]]

\* document.save(): the update of the paths the handler modified.  A path set
\* to the value the document was loaded with is not modified; the paths in
\* fresh were set to a value made for this request (a new Date, a salted
\* hash), which differs from any value loaded.
saveCodes(stored, loaded, changed, fresh) ==
    [stored EXCEPT
        !.password =
            IF "password" \in fresh THEN changed.password ELSE @,
        !.is_verified =
            IF changed.is_verified # loaded.is_verified
            THEN changed.is_verified ELSE @,
        !.verify_email_token =
            IF changed.verify_email_token # loaded.verify_email_token
            THEN changed.verify_email_token ELSE @,
        !.verify_email_token_expires =
            IF \/ "verify_email_token_expires" \in fresh
               \/ changed.verify_email_token_expires # loaded.verify_email_token_expires
            THEN changed.verify_email_token_expires ELSE @,
        !.reset_password_token =
            IF changed.reset_password_token # loaded.reset_password_token
            THEN changed.reset_password_token ELSE @,
        !.reset_password_token_expires =
            IF \/ "reset_password_token_expires" \in fresh
               \/ changed.reset_password_token_expires
                      # loaded.reset_password_token_expires
            THEN changed.reset_password_token_expires ELSE @]

\* createUser up to its save: it answers an error at once, or holds the
\* document it made after finding the address free.
createUser_find(k, email, password, verificationCode) ==
    LET key == Slot("createUser", k)
        free == validateSignInInput(email, password) /\ ~emailTaken(email)
    IN /\ key \notin DOMAIN inflight
       /\ IF free
          THEN /\ inflight' =
                     (key :> Read(email, NewUser(email, hash(password), verificationCode),
                                  password, verificationCode)) @@ inflight
               /\ UNCHANGED <<users, proven, jar, now, last>>
          ELSE createUser(email, password, NoRole, verificationCode, NoFailure)

\* await user.save({ session }) and what follows it.  The unique index on
\* email refuses the insert when the address was taken meanwhile: save
\* throws, and the catch block aborts the transaction and answers.
createUser_save(k) ==
    LET key == Slot("createUser", k)
        h == inflight[key]
        duplicate == emailTaken(h.id)
        token == generateToken(h.id, Undefined, FullTokenTtl)
        res == IF duplicate
               THEN Said(errorApiResponse(INTERNAL_ERROR), "Internal Server Error")
               ELSE Response(CREATED, token, token, NoToken, "noPassword", h.code)
    IN /\ key \in DOMAIN inflight
       /\ users' = IF duplicate THEN users ELSE (h.id :> h.loaded) @@ users
       /\ jar' = Keep(res)
       /\ inflight' = Done(key)
       /\ last' = Failed(Request("createUser", h.id, h.password, NoCode, NoTotp,
                                 NoToken, res),
                         IF duplicate THEN SaveFailure ELSE NoFailure,
                         IF duplicate THEN HandlerError ELSE NothingLogged)
       /\ UNCHANGED <<proven, now>>

\* confirmEmail up to its save.
confirmEmail_find(bearer, verificationCode) ==
    LET key == Slot("confirmEmail", 1)
        userId == bearer.userId
        accepted == /\ authMiddleware(bearer) = NEXT
                    /\ userId \in DOMAIN users
                    /\ ~invalidOrExpired(users[userId], verificationCode)
    IN /\ key \notin DOMAIN inflight
       /\ IF accepted
          THEN /\ inflight' =
                     (key :> [Read(userId, users[userId], NoPassword, verificationCode)
                                  EXCEPT !.bearer = bearer]) @@ inflight
               /\ UNCHANGED <<users, proven, jar, now, last>>
          ELSE confirmEmail(bearer, verificationCode, NoFailure)

\* is_verified = true; the code and its expiry = undefined; await user.save()
confirmEmail_save ==
    LET key == Slot("confirmEmail", 1)
        h == inflight[key]
        changed == [h.loaded EXCEPT !.is_verified = TRUE,
                                    !.verify_email_token = Undefined,
                                    !.verify_email_token_expires = NoDate]
    IN /\ key \in DOMAIN inflight
       /\ users' = [users EXCEPT ![h.id] = saveCodes(@, h.loaded, changed, {})]
       /\ inflight' = Done(key)
       /\ last' = Compared(Request("confirmEmail", h.id, NoPassword, h.code, NoTotp,
                                   h.bearer,
                                   Response(OK, NoToken, NoToken, NoToken,
                                            "noPassword", NoCode)),
                           h.loaded.verify_email_token_expires)
       /\ UNCHANGED <<proven, jar, now>>

\* regenerateEmailCode up to its save.
regenerateEmailCode_find(bearer, verificationCode) ==
    LET key == Slot("regenerateEmailCode", 1)
        userId == bearer.userId
        pending == /\ authMiddleware(bearer) = NEXT
                   /\ userId \in DOMAIN users
                   /\ ~users[userId].is_verified
    IN /\ key \notin DOMAIN inflight
       /\ IF pending
          THEN /\ inflight' =
                     (key :> [Read(userId, users[userId], NoPassword, verificationCode)
                                  EXCEPT !.bearer = bearer]) @@ inflight
               /\ UNCHANGED <<users, proven, jar, now, last>>
          ELSE regenerateEmailCode(bearer, verificationCode, NoFailure)

\* the new code and new Date(Date.now() + 5 min); await user.save()
regenerateEmailCode_save ==
    LET key == Slot("regenerateEmailCode", 1)
        h == inflight[key]
    IN /\ key \in DOMAIN inflight
       /\ users' = [users EXCEPT
                      ![h.id] = saveCodes(@, h.loaded, withVerifyCode(h.loaded, h.code),
                                          {"verify_email_token_expires"})]
       /\ inflight' = Done(key)
       /\ last' = Request("regenerateEmailCode", h.id, NoPassword, NoCode, NoTotp,
                          h.bearer,
                          Response(OK, NoToken, NoToken, NoToken, "none", h.code))
       /\ UNCHANGED <<proven, jar, now>>

\* requestPasswordReset up to its save.
requestPasswordReset_find(email, resetToken) ==
    LET key == Slot("requestPasswordReset", 1)
        found == validateRequestPasswordReset(email) /\ email \in DOMAIN users
    IN /\ key \notin DOMAIN inflight
       /\ IF found
          THEN /\ inflight' =
                     (key :> Read(email, users[email], NoPassword, resetToken))
                         @@ inflight
               /\ UNCHANGED <<users, proven, jar, now, last>>
          ELSE requestPasswordReset(email, resetToken, NoFailure)

\* the reset code and new Date(Date.now() + 15 min); await user.save()
requestPasswordReset_save ==
    LET key == Slot("requestPasswordReset", 1)
        h == inflight[key]
        changed == [h.loaded EXCEPT
                      !.reset_password_token = h.code,
                      !.reset_password_token_expires = now + ResetCodeTtl]
        res == Said(Response(OK, NoToken, NoToken, NoToken, "none", h.code),
                    "Password reset instructions sent to your email")
    IN /\ key \in DOMAIN inflight
       /\ users' = [users EXCEPT
                      ![h.id] = saveCodes(@, h.loaded, changed,
                                          {"reset_password_token_expires"})]
       /\ jar' = Received(jar, h.id, res)
       /\ inflight' = Done(key)
       /\ last' = Request("requestPasswordReset", h.id, NoPassword, NoCode, NoTotp,
                          NoToken, res)
       /\ UNCHANGED <<proven, now>>

\* resetPassword up to its save: it answers 400 at once, or holds the
\* account its query found.
resetPassword_find(k, token, new_password) ==
    LET key == Slot("resetPassword", k)
        found == findByResetToken(token)
    IN /\ key \notin DOMAIN inflight
       /\ IF validateResetPassword(token, new_password) /\ found # {}
          THEN \E id \in found :
                  /\ inflight' =
                        (key :> Read(id, users[id], new_password, token)) @@ inflight
                  /\ UNCHANGED <<users, proven, jar, now, last>>
          ELSE resetPassword(token, new_password)

\* the new hash; the reset code and its expiry = undefined; await user.save()
resetPassword_save(k) ==
    LET key == Slot("resetPassword", k)
        h == inflight[key]
    IN /\ key \in DOMAIN inflight
       /\ users' = [users EXCEPT
                      ![h.id] = saveCodes(@, h.loaded,
                                          withNewPassword(h.loaded, hash(h.password)),
                                          {"password"})]
       /\ inflight' = Done(key)
       /\ last' = Compared(Request("resetPassword", h.id, h.password, h.code, NoTotp,
                                   NoToken,
                                   Response(OK, NoToken, NoToken, NoToken, "none",
                                            NoCode)),
                           h.loaded.reset_password_token_expires)
       /\ UNCHANGED <<proven, jar, now>>

----------------------------------------------------------------------------
\* Fault variant: the role the account signed up with.
storedRole_AtSignUp(userId) == UserRoleUSER

\* await User.findById(userId).select("role"): the role as stored now.
storedRole(userId) == users[userId].role

\* The role of an account is changed in the store.  No handler of the server
\* writes the role path: the change comes from outside the request handlers.
roleChanged(userId, role) ==
    /\ userId \in DOMAIN users
    /\ users[userId].role # role
    /\ users' = [users EXCEPT ![userId].role = role]
    /\ UNCHANGED <<proven, jar, now, last, inflight>>

\* The store-backed role gate behind the token gate.
checkRole(bearer, requiredRoles) ==
    LET gate == authMiddleware(bearer)
        userId == bearer.userId
        res == IF gate # NEXT THEN errorApiResponse(gate)
               ELSE IF userId = Undefined THEN errorApiResponse(UNAUTHORIZED)
               ELSE IF userId \notin DOMAIN users THEN errorApiResponse(NOT_FOUND)
               ELSE IF storedRole(userId) \notin requiredRoles
               THEN errorApiResponse(FORBIDDEN)
               ELSE errorApiResponse(NEXT)
    IN /\ last' = Required(Request("checkRole", userId, NoPassword, NoCode, NoTotp,
                                  bearer, res),
                          requiredRoles)
       /\ UNCHANGED <<users, proven, jar, now, inflight>>

\* The is_premium flag of an account is changed in the store.  No handler of
\* the server writes the path: the change comes from outside the request
\* handlers.
premiumChanged(userId, is_premium) ==
    /\ userId \in DOMAIN users
    /\ users[userId].is_premium # is_premium
    /\ users' = [users EXCEPT ![userId].is_premium = is_premium]
    /\ UNCHANGED <<proven, jar, now, last, inflight>>

\* .select(paths): the document with the selected paths it has, and no
\* default for a path left out.
select(document, paths) == [p \in paths \cap DOMAIN document |-> document[p]]

\* user.is_premium read off a loaded document: undefined, which the test
\* takes for false, when the path was not loaded.
loadedPremium(document) ==
    IF "is_premium" \in DOMAIN document THEN document.is_premium ELSE FALSE

\* The premium gate behind the token gate.
isProUser(bearer) ==
    LET gate == authMiddleware(bearer)
        userId == bearer.userId
        user == select(users[userId], {"info.is_premium"})
        res == IF gate # NEXT THEN errorApiResponse(gate)
               ELSE IF userId = Undefined THEN errorApiResponse(UNAUTHORIZED)
               ELSE IF userId \notin DOMAIN users THEN errorApiResponse(NOT_FOUND)
               ELSE IF ~loadedPremium(user) THEN errorApiResponse(FORBIDDEN)
               ELSE errorApiResponse(NEXT)
    IN /\ last' = Request("isProUser", userId, NoPassword, NoCode, NoTotp, bearer, res)
       /\ UNCHANGED <<users, proven, jar, now, inflight>>

----------------------------------------------------------------------------
\* What the environment may send.

\* Bearer tokens: the ones clients hold, none, or one the server never signed.
Bearers ==
    {jar[e].full : e \in Emails} \cup {jar[e].temp : e \in Emails}
        \cup {NoToken, GarbageToken}

\* TOTP codes: of any secret, for the current step and the steps around it.
TotpCodes ==
    {totp(s, currentStep + d) : s \in Secrets, d \in TotpOffsets} \cup {NoTotp}

SubmittedCodes == GeneratedCodes \cup {NoCode}

----------------------------------------------------------------------------
\* A request is handled when the response to the one before it is out.
Idle == last = NoRequest

\* The response is delivered.  When a rejection went unhandled the server
\* then closes and the process exits.
Respond ==
    /\ last \notin {NoRequest, Shutdown}
    /\ last' = IF last.logged = UnhandledRejection THEN Shutdown ELSE NoRequest
    /\ UNCHANGED <<users, proven, jar, now, inflight>>

Next ==
    \/ Tick
    \/ Respond
    \/ Idle /\ \E e \in SignUpEmails, p \in {"Str0ng!Pass", WeakPassword},
          c \in GeneratedCodes : createUser(e, p, NoRole, c, NoFailure)
    \/ Idle /\ \E e \in Emails \cup {BadEmail}, p \in Passwords \cup {NoPassword} :
          loginUser(e, p)
    \/ Idle /\ \E t \in Bearers, c \in TotpCodes : verifyLoginWithTwoFactor(t, c)
    \/ Idle /\ \E t \in Bearers, c \in SubmittedCodes : confirmEmail(t, c, NoFailure)
    \/ Idle /\ \E t \in Bearers, c \in GeneratedCodes : regenerateEmailCode(t, c, NoFailure)
    \/ Idle /\ \E e \in Emails \cup {BadEmail}, c \in GeneratedCodes :
          requestPasswordReset(e, c, NoFailure)
    \/ Idle /\ \E c \in SubmittedCodes, p \in {"N3w!Passw0rd", WeakPassword} :
          resetPassword(c, p)
    \/ Idle /\ \E t \in Bearers, s \in Secrets : generateTwoFactorSecret(t, s)
    \/ Idle /\ \E t \in Bearers, c \in TotpCodes : verifyAndEnableTwoFactor(t, c)
    \/ Idle /\ \E t \in Bearers, p \in Passwords \cup {NoPassword} : disableTwoFactor(t, p)
    \/ Idle /\ \E t \in Bearers, r \in {{UserRoleADMIN}, {UserRoleUSER}} : checkRole(t, r)

Spec == Init /\ [][Next]_vars

\* The behaviours that follow a reset code to its expiry: sign-up, sign-in and
\* the two password reset requests, over the longer schedule.
NextReset ==
    \/ TickLong
    \/ Respond
    \/ Idle /\ \E e \in SignUpEmails, p \in {"Str0ng!Pass", WeakPassword},
          c \in GeneratedCodes : createUser(e, p, NoRole, c, NoFailure)
    \/ Idle /\ \E e \in Emails \cup {BadEmail}, p \in Passwords \cup {NoPassword} :
          loginUser(e, p)
    \/ Idle /\ \E e \in Emails \cup {BadEmail}, c \in GeneratedCodes :
          requestPasswordReset(e, c, NoFailure)
    \/ Idle /\ \E c \in SubmittedCodes, p \in {"N3w!Passw0rd", WeakPassword} :
          resetPassword(c, p)

SpecReset == Init /\ [][NextReset]_vars

\* The behaviours of the verify and reset codes of two accounts: both addresses
\* sign up, and either may be sent any code.
NextCodes ==
    \/ Tick
    \/ Respond
    \/ Idle /\ \E e \in Emails, c \in GeneratedCodes :
          createUser(e, "Str0ng!Pass", NoRole, c, NoFailure)
    \/ Idle /\ \E t \in Bearers, c \in SubmittedCodes : confirmEmail(t, c, NoFailure)
    \/ Idle /\ \E t \in Bearers, c \in GeneratedCodes :
          regenerateEmailCode(t, c, NoFailure)
    \/ Idle /\ \E e \in Emails, c \in GeneratedCodes :
          requestPasswordReset(e, c, NoFailure)
    \/ Idle /\ \E c \in SubmittedCodes : resetPassword(c, "N3w!Passw0rd")

SpecCodes == Init /\ [][NextCodes]_vars

\* The behaviours in which a step of a handler fails: the referrer lookup,
\* the save or the commit of a sign-up, or the send of a mail.
SignUpFailures == {NoFailure, ReferrerFailure, SaveFailure, CommitFailure, MailFailure}
MailFailures == {NoFailure, MailFailure}

NextFaults ==
    \/ Tick
    \/ Respond
    \/ Idle /\ \E e \in SignUpEmails, c \in GeneratedCodes, f \in SignUpFailures :
          createUser(e, "Str0ng!Pass", NoRole, c, f)
    \/ Idle /\ \E t \in Bearers, c \in SubmittedCodes, f \in MailFailures :
          confirmEmail(t, c, f)
    \/ Idle /\ \E t \in Bearers, c \in GeneratedCodes, f \in MailFailures :
          regenerateEmailCode(t, c, f)
    \/ Idle /\ \E e \in Emails, c \in GeneratedCodes, f \in MailFailures :
          requestPasswordReset(e, c, f)

SpecFaults == Init /\ [][NextFaults]_vars

\* The behaviours in which the 2FA management requests of an account run
\* side by side, each between its find and its save.
NextRace ==
    \/ Respond
    \/ Idle /\ \E e \in SignUpEmails, c \in GeneratedCodes :
          createUser(e, "Str0ng!Pass", NoRole, c, NoFailure)
    \/ Idle /\ \E t \in Bearers, s \in Secrets : generateTwoFactorSecret_find(t, s)
    \/ generateTwoFactorSecret_save
    \/ Idle /\ \E t \in Bearers, c \in TotpCodes : verifyAndEnableTwoFactor_find(t, c)
    \/ verifyAndEnableTwoFactor_save
    \/ Idle /\ \E t \in Bearers, p \in Passwords \cup {NoPassword} :
          disableTwoFactor_find(t, p)
    \/ disableTwoFactor_save

SpecRace == Init /\ [][NextRace]_vars

\* The behaviours in which the roles and the premium flags of the accounts
\* change between the requests that go through the role and premium gates.
NextRoles ==
    \/ Tick
    \/ Respond
    \/ Idle /\ \E e \in Emails, r \in UserRole \cup {NoRole}, c \in GeneratedCodes :
          createUser(e, "Str0ng!Pass", r, c, NoFailure)
    \/ Idle /\ \E e \in Emails, r \in UserRole : roleChanged(e, r)
    \/ Idle /\ \E e \in Emails, b \in BOOLEAN : premiumChanged(e, b)
    \/ Idle /\ \E t \in Bearers : isProUser(t)
    \/ Idle /\ \E t \in Bearers, r \in {{UserRoleADMIN}, {UserRoleUSER}} : checkRole(t, r)

SpecRoles == Init /\ [][NextRoles]_vars

\* The behaviours of the two-step sign-in, with clients that keep track of
\* the temporary token they exchanged.
NextLogin ==
    \/ Tick
    \/ Respond
    \/ Idle /\ \E e \in SignUpEmails, c \in GeneratedCodes :
          createUser(e, "Str0ng!Pass", NoRole, c, NoFailure)
    \/ Idle /\ \E e \in SignUpEmails, p \in Passwords : loginUser(e, p)
    \/ Idle /\ \E t \in Bearers, c \in TotpCodes : verifyLoginWithTwoFactor(t, c)
    \/ Idle /\ \E t \in Bearers, s \in Secrets : generateTwoFactorSecret(t, s)
    \/ Idle /\ \E t \in Bearers, c \in TotpCodes : verifyAndEnableTwoFactor(t, c)
    \/ Idle /\ \E t \in Bearers : disableTwoFactor(t, "Str0ng!Pass")

SpecLogin == InitTracking /\ [][NextLogin]_vars

\* The behaviours of the reset codes of two accounts, with clients that keep
\* track of the codes they were mailed.
NextResetCodes ==
    \/ Respond
    \/ Idle /\ \E e \in Emails, c \in GeneratedCodes :
          createUser(e, "Str0ng!Pass", NoRole, c, NoFailure)
    \/ Idle /\ \E e \in Emails, c \in GeneratedCodes :
          requestPasswordReset(e, c, NoFailure)
    \/ Idle /\ \E c \in SubmittedCodes : resetPassword(c, "N3w!Passw0rd")

SpecResetCodes == InitTracking /\ [][NextResetCodes]_vars

\* The behaviours in which the confirmation and the regeneration of a verify
\* code and the two password reset requests run side by side, each between
\* its find and its save.
NextCodesRace ==
    \/ Respond
    \/ Idle /\ \E e \in SignUpEmails, c \in GeneratedCodes :
          createUser(e, "Str0ng!Pass", NoRole, c, NoFailure)
    \/ Idle /\ \E t \in Bearers, c \in SubmittedCodes : confirmEmail_find(t, c)
    \/ confirmEmail_save
    \/ Idle /\ \E t \in Bearers, c \in GeneratedCodes : regenerateEmailCode_find(t, c)
    \/ regenerateEmailCode_save
    \/ Idle /\ \E e \in SignUpEmails, c \in GeneratedCodes :
          requestPasswordReset_find(e, c)
    \/ requestPasswordReset_save
    \/ Idle /\ \E c \in SubmittedCodes : resetPassword_find(1, c, "N3w!Passw0rd")
    \/ resetPassword_save(1)

SpecCodesRace == Init /\ [][NextCodesRace]_vars

\* The behaviours in which two password resets run side by side.  A code is
\* requested while no reset is in flight, so that the resets in flight were
\* sent the one code the account held.
NextResetRace ==
    \/ Respond
    \/ Idle /\ \E e \in SignUpEmails, c \in GeneratedCodes :
          createUser(e, "Str0ng!Pass", NoRole, c, NoFailure)
    \/ Idle /\ inflight = <<>> /\ \E e \in SignUpEmails, c \in GeneratedCodes :
          requestPasswordReset(e, c, NoFailure)
    \/ Idle /\ \E k \in Slots, c \in SubmittedCodes, p \in Passwords :
          resetPassword_find(k, c, p)
    \/ \E k \in Slots : resetPassword_save(k)

SpecResetRace == Init /\ [][NextResetRace]_vars

\* The behaviours in which two sign-ups run side by side.
NextSignUpRace ==
    \/ Respond
    \/ Idle /\ \E k \in Slots, e \in Emails, c \in GeneratedCodes :
          createUser_find(k, e, "Str0ng!Pass", c)
    \/ \E k \in Slots : createUser_save(k)

SpecSignUpRace == Init /\ [][NextSignUpRace]_vars

----------------------------------------------------------------------------
\* The token middleware protect and the error middleware.

\* createError(message, statusCode, errorData, severity, isOperational): an
\* AppError; the callers of the middleware leave isOperational at its
\* default, true.
createError(message, statusCode, isOperational) ==
    [name |-> "Error", message |-> message, statusCode |-> statusCode,
     status |-> IF statusCode \div 100 = 4 THEN "fail" ELSE "error",
     isOperational |-> isOperational]

\* An error a library throws: it has a name and a message and no status.
Thrown(name, message) == [name |-> name, message |-> message]

\* The error of the driver for a duplicate key.
DuplicateKeyCode == 11000
MongoError == [name |-> "MongoServerError", message |-> "E11000", code |-> DuplicateKeyCode]

isAppError(error) == {"statusCode", "status", "isOperational"} \subseteq DOMAIN error

\* res.status(status).json(body) on a response that holds the calls made so
\* far.  A call on a response already sent throws ERR_HTTP_HEADERS_SENT, and
\* the statements after it do not run: nothing is called after a second call.
json(written, status) ==
    IF Len(written) >= 2 THEN written ELSE Append(written, status)

sendDevError(err, written) == json(written, err.statusCode)

\* The operational branch does not return: the generic 500 response is
\* written after it as well.
sendProdError(err, written) ==
    LET afterBranch == IF err.isOperational THEN json(written, err.statusCode)
                       ELSE written
    IN json(afterBranch, INTERNAL_ERROR)

\* errorHandler(err, req, res, next): the error is made an AppError, the
\* errors known by name or code are replaced, and the response is written
\* the way of the mode the process runs in.
errorHandler(err, isDevelopment, written) ==
    LET e0 == IF isAppError(err) THEN err
              ELSE createError(err.message, INTERNAL_ERROR, TRUE)
        e1 == IF err.name = "CastError" THEN createError("Invalid path", BAD_REQUEST, TRUE)
              ELSE e0
        e2 == IF err.name = "ValidationError"
              THEN createError("Invalid input data.", BAD_REQUEST, TRUE) ELSE e1
        e3 == IF err.name = "JsonWebTokenError"
              THEN createError("Invalid token. Please log in again.", UNAUTHORIZED, TRUE)
              ELSE e2
        e4 == IF err.name = "TokenExpiredError"
              THEN createError("Your token has expired. Please log in again.",
                               UNAUTHORIZED, TRUE)
              ELSE e3
        error == IF "code" \in DOMAIN err /\ err.code = DuplicateKeyCode
                 THEN createError("Duplicate value", BAD_REQUEST, TRUE) ELSE e4
    IN IF isDevelopment THEN sendDevError(error, written)
       ELSE sendProdError(error, written)

\* jwt.verify(token, secret, { issuer, algorithms }): the signature, then the
\* expiry, then the issuer claim.
verifyAccessToken(token) ==
    IF ~verifyToken(token).ok THEN verifyToken(token)
    ELSE IF token.iss # jwtConfigIssuer THEN [ok |-> FALSE, error |-> "JsonWebTokenError"]
    ELSE [ok |-> TRUE, error |-> "none"]

\* The response record of the calls made: the client gets the first one.
firstWritten(written) ==
    IF written = <<>> THEN errorApiResponse(NEXT) ELSE errorApiResponse(written[1])

\* protect(req, res, next), followed by the error handler when it calls
\* next with an error.  Without a token it writes a 401 response and then
\* calls next with an error as well.
protect(bearer, isDevelopment) ==
    LET decoded == verifyAccessToken(bearer)
        written ==
            IF bearer.sig = "absent"
            THEN errorHandler(createError("Access denied. No token provided.",
                                          UNAUTHORIZED, TRUE),
                              isDevelopment, json(<<>>, UNAUTHORIZED))
            ELSE IF decoded.ok THEN <<>>
            ELSE IF decoded.error = "TokenExpiredError"
            THEN errorHandler(createError("Token expired", UNAUTHORIZED, TRUE),
                              isDevelopment, <<>>)
            ELSE errorHandler(createError("Invalid token", UNAUTHORIZED, TRUE),
                              isDevelopment, <<>>)
    IN /\ last' = Wrote(Request("protect", Undefined, NoPassword, NoCode, NoTotp,
                                bearer, firstWritten(written)), written)
       /\ UNCHANGED <<users, proven, jar, now, inflight>>

\* notFoundHandler(req, res, next): no route matched, the error handler runs.
notFoundHandler(isDevelopment) ==
    LET written == errorHandler(createError("Cannot find the URL on this server",
                                            NOT_FOUND, TRUE), isDevelopment, <<>>)
    IN /\ last' = Wrote(Request("notFoundHandler", Undefined, NoPassword, NoCode,
                                NoTotp, NoToken, firstWritten(written)), written)
       /\ UNCHANGED <<users, proven, jar, now, inflight>>

\* The errors a route hands to next or throws.
RouteErrors ==
    {Thrown(n, "failed") : n \in {"Error", "CastError", "ValidationError",
                                  "JsonWebTokenError", "TokenExpiredError"}}
        \cup {MongoError, createError("Not allowed", FORBIDDEN, TRUE),
              createError("Programming error", INTERNAL_ERROR, FALSE)}

\* A route hands an error to next: the error handler runs.
routeError(err, isDevelopment) ==
    LET written == errorHandler(err, isDevelopment, <<>>)
    IN /\ last' = Wrote(Failed(Request("routeError", Undefined, NoPassword, NoCode,
                                       NoTotp, NoToken, firstWritten(written)),
                               err.name, HandlerError), written)
       /\ UNCHANGED <<users, proven, jar, now, inflight>>

\* The behaviours of the token and error middleware, in either mode of the
\* process, with the tokens the sign-up hands out.
NextMiddleware ==
    \/ Tick
    \/ Respond
    \/ Idle /\ \E e \in Emails, c \in GeneratedCodes :
          createUser(e, "Str0ng!Pass", NoRole, c, NoFailure)
    \/ Idle /\ \E t \in Bearers, d \in BOOLEAN : protect(t, d)
    \/ Idle /\ \E d \in BOOLEAN : notFoundHandler(d)
    \/ Idle /\ \E err \in RouteErrors, d \in BOOLEAN : routeError(err, d)

SpecMiddleware == Init /\ [][NextMiddleware]_vars

----------------------------------------------------------------------------
\* Vocabulary of the properties.

\* A token the server signed that carries no scope claim / the scope '2fa'.
IsFullAccess(t) == t.sig = "valid" /\ t.scope = Undefined
IsTemporary(t) == t.sig = "valid" /\ t.scope = "2fa"

Unexpired(t) == now < t.exp

\* The response carries no token at all, in the body or as a cookie.
NoTokenIn(res) ==
    res.token = NoToken /\ res.cookie = NoToken /\ res.tempToken = NoToken

\* The codes of a secret for the current time step and the steps next to it.
AcceptableTotp(secret) == {totp(secret, currentStep + d) : d \in {-1, 0, 1}}

\* The request passed the token gate and reached its handler.
Authenticated(req) == authMiddleware(req.bearer) = NEXT

ProtectedOps ==
    {"confirmEmail", "regenerateEmailCode", "generateTwoFactorSecret",
     "verifyAndEnableTwoFactor", "disableTwoFactor", "checkRole"}

----------------------------------------------------------------------------
\* C1: a sign-in with a correct e-mail and password is answered with a
\* full-access token (no scope) when the account's two_factor.enabled is
\* false, and with a temporary token of scope '2fa' and no full-access token,
\* in the body or as a cookie, when it is true.
C1_SignInBranches ==
    [][(/\ last'.op = "loginUser"
        /\ last'.email \in DOMAIN users
        /\ verify(users[last'.email].password, last'.password))
       => LET res == last'.res
          IN IF users[last'.email].two_factor.enabled
             THEN /\ IsTemporary(res.tempToken)
                  /\ res.tempToken.userId = last'.email
                  /\ res.token = NoToken
                  /\ res.cookie = NoToken
             ELSE /\ IsFullAccess(res.token) \/ IsFullAccess(res.cookie)
                  /\ \A t \in {res.token, res.cookie} :
                        t # NoToken => IsFullAccess(t) /\ t.userId = last'.email
                  /\ res.tempToken = NoToken]_vars

C1_Witness ==
    /\ last.op = "loginUser"
    /\ last.email \in DOMAIN users
    /\ users[last.email].two_factor.enabled
    /\ IsTemporary(last.res.tempToken)
    /\ last.res.cookie = NoToken

C3_Original ==
    [][(/\ last'.op = "verifyLoginWithTwoFactor"
        /\ last'.bearer.sig = "valid"
        /\ Unexpired(last'.bearer)
        /\ last'.bearer.scope # "2fa")
       => last'.res.status = FORBIDDEN /\ NoTokenIn(last'.res)]_vars

\* C3 amended: for such a token the step issues no token; it answers 403 when
\* a 2FA code is submitted with it and 400 when the code is missing.
C3_WrongScopeRejected ==
    [][(/\ last'.op = "verifyLoginWithTwoFactor"
        /\ last'.bearer.sig = "valid"
        /\ Unexpired(last'.bearer)
        /\ last'.bearer.scope # "2fa")
       => /\ NoTokenIn(last'.res)
          /\ jar' = jar
          /\ last'.res.status =
                IF last'.totp = NoTotp THEN BAD_REQUEST ELSE FORBIDDEN]_vars

C3_Witness ==
    /\ last.op = "verifyLoginWithTwoFactor"
    /\ IsFullAccess(last.bearer)
    /\ Unexpired(last.bearer)
    /\ users[last.bearer.userId].two_factor.enabled
    /\ last.totp \in AcceptableTotp(users[last.bearer.userId].two_factor.secret)
    /\ last.res.status = FORBIDDEN

\* C4 as stated: with a valid temporary token, a wrong code is answered 401
\* with no token and no change, and a correct code with a full-access token.
C4_Original ==
    [][(/\ last'.op = "verifyLoginWithTwoFactor"
        /\ IsTemporary(last'.bearer)
        /\ Unexpired(last'.bearer)
        /\ last'.totp # NoTotp)
       => LET id == last'.bearer.userId
              secret == users[id].two_factor.secret
          IN IF secret # NoSecret /\ last'.totp \in AcceptableTotp(secret)
             THEN /\ last'.res.status = OK
                  /\ IsFullAccess(last'.res.token)
                  /\ last'.res.token.userId = id
             ELSE /\ last'.res.status = UNAUTHORIZED
                  /\ NoTokenIn(last'.res)
                  /\ users' = users
                  /\ jar' = jar]_vars

\* C4 amended: the same while the account still has 2FA enabled with a secret;
\* once 2FA was disabled the step answers 400, again without a token or a
\* change.
C4_WrongCodeNoLockout ==
    [][(/\ last'.op = "verifyLoginWithTwoFactor"
        /\ IsTemporary(last'.bearer)
        /\ Unexpired(last'.bearer)
        /\ last'.totp # NoTotp)
       => LET id == last'.bearer.userId
              two_factor == users[id].two_factor
          IN /\ users' = users
             /\ IF ~two_factor.enabled \/ two_factor.secret = NoSecret
                THEN /\ last'.res.status = BAD_REQUEST
                     /\ NoTokenIn(last'.res)
                     /\ jar' = jar
                ELSE IF last'.totp \in AcceptableTotp(two_factor.secret)
                THEN /\ last'.res.status = OK
                     /\ IsFullAccess(last'.res.token)
                     /\ last'.res.token.userId = id
                ELSE /\ last'.res.status = UNAUTHORIZED
                     /\ NoTokenIn(last'.res)
                     /\ jar' = jar]_vars

C4_Witness ==
    /\ last.op = "verifyLoginWithTwoFactor"
    /\ IsTemporary(last.bearer)
    /\ Unexpired(last.bearer)
    /\ users[last.bearer.userId].two_factor.enabled
    /\ last.totp # NoTotp
    /\ last.totp \notin AcceptableTotp(users[last.bearer.userId].two_factor.secret)
    /\ last.res.status = UNAUTHORIZED
    /\ jar[last.bearer.userId].temp = last.bearer

\* C5: two_factor.enabled goes from false to true only in a
\* verifyAndEnableTwoFactor step whose code is valid for the stored secret,
\* and an account starts with it false.
C5_EnabledOnlyByVerify ==
    [][\A e \in DOMAIN users' :
          users'[e].two_factor.enabled
          => /\ e \in DOMAIN users
             /\ \/ users[e].two_factor.enabled
                \/ /\ last'.op = "verifyAndEnableTwoFactor"
                   /\ last'.email = e
                   /\ users[e].two_factor.secret # NoSecret
                   /\ last'.totp \in AcceptableTotp(users[e].two_factor.secret)]_vars

C5_Witness ==
    /\ last.op = "verifyAndEnableTwoFactor"
    /\ last.res.status = OK
    /\ users[last.email].two_factor.enabled
    /\ last.totp \in AcceptableTotp(users[last.email].two_factor.secret)

\* C6 as stated: when generateTwoFactorSecret has stored a secret,
\* two_factor.enabled is false, whatever the state it was called in.
C6_Original ==
    [][(last'.op = "generateTwoFactorSecret" /\ last'.res.status = OK)
       => ~users'[last'.email].two_factor.enabled]_vars

\* C7 as stated: whenever two_factor.enabled is true, a valid code was
\* submitted to verifyAndEnableTwoFactor since the stored secret was stored.
C7_Original ==
    \A e \in DOMAIN users : users[e].two_factor.enabled => proven[e]

\* C8: disableTwoFactor disables 2FA and clears the secret exactly when the
\* submitted password verifies against the stored hash; a wrong password is
\* answered 401 and a missing one 400, with two_factor unchanged.
C8_DisableNeedsPassword ==
    [][(last'.op = "disableTwoFactor" /\ Authenticated(last'))
       => LET id == last'.email
          IN IF last'.password = NoPassword
             THEN last'.res.status = BAD_REQUEST /\ users' = users
             ELSE IF users[id].password # hash(last'.password)
             THEN last'.res.status = UNAUTHORIZED /\ users' = users
             ELSE /\ last'.res.status = OK
                  /\ users'[id].two_factor = [enabled |-> FALSE, secret |-> NoSecret]
                  /\ users' = [users EXCEPT ![id].two_factor = users'[id].two_factor]]_vars

C8_Witness ==
    /\ last.op = "disableTwoFactor"
    /\ Authenticated(last)
    /\ last.res.status = UNAUTHORIZED
    /\ last.password # NoPassword
    /\ users[last.email].two_factor.enabled

\* C9: confirmEmail succeeds exactly when the submitted code equals the
\* stored one and now <= the stored expiry; otherwise it answers 401 and the
\* account is unchanged.
C9_ConfirmIff ==
    [][(last'.op = "confirmEmail" /\ Authenticated(last'))
       => LET id == last'.email
          IN IF /\ users[id].verify_email_token = last'.code
                /\ now <= users[id].verify_email_token_expires
             THEN last'.res.status = OK /\ users'[id].is_verified
             ELSE last'.res.status = UNAUTHORIZED /\ users' = users]_vars

\* A submission accepted at the exact expiry instant.
C9_Witness ==
    /\ last.op = "confirmEmail"
    /\ last.res.status = OK
    /\ users[last.email].is_verified
    /\ now = last.expires

\* C10 as stated: resetPassword succeeds exactly when the submitted code is a
\* stored reset code whose expiry is later than now; otherwise it answers 400
\* and no password changes.
C10_Original ==
    [][last'.op = "resetPassword"
       => IF \E id \in DOMAIN users :
                /\ users[id].reset_password_token = last'.code
                /\ now < users[id].reset_password_token_expires
          THEN last'.res.status = OK
          ELSE /\ last'.res.status = BAD_REQUEST
               /\ users' = users]_vars

\* C10 amended: the same for a request whose new password satisfies the
\* password policy; one that does not is answered 400 with no change.  A
\* code's expiry is 15 minutes after its request, so it is accepted 10
\* minutes after the request and rejected 16 minutes after it.
C10_ResetIff ==
    [][/\ last'.op = "resetPassword"
          => LET matching == {id \in DOMAIN users :
                                /\ users[id].reset_password_token = last'.code
                                /\ now < users[id].reset_password_token_expires}
             IN /\ IF matching # {} /\ last'.password \in Passwords
                   THEN /\ last'.res.status = OK
                        /\ last'.email \in matching
                        /\ users'[last'.email].password = hash(last'.password)
                        /\ \A id \in DOMAIN users \ {last'.email} :
                              users'[id] = users[id]
                   ELSE /\ last'.res.status = BAD_REQUEST
                        /\ users' = users
                /\ \A id \in DOMAIN users :
                      (/\ users[id].reset_password_token = last'.code
                       /\ last'.password \in Passwords
                       /\ matching \subseteq {id})
                      => /\ now = users[id].reset_password_token_expires - 15 + 10
                            => last'.res.status = OK
                         /\ now = users[id].reset_password_token_expires - 15 + 16
                            => last'.res.status = BAD_REQUEST
       /\ (last'.op = "requestPasswordReset" /\ last'.res.status = OK)
          => /\ users'[last'.email].reset_password_token = last'.res.mailed
             /\ users'[last'.email].reset_password_token_expires = now + 15]_vars

\* A code accepted 10 minutes after its request.
C10_Witness ==
    /\ last.op = "resetPassword"
    /\ last.res.status = OK
    /\ now = last.expires - 15 + 10
    /\ users[last.email].password = hash(last.password)

----------------------------------------------------------------------------
\* The account has no verify code / no reset code stored.
NoVerifyCode(user) ==
    user.verify_email_token = Undefined /\ user.verify_email_token_expires = NoDate

NoResetCode(user) ==
    user.reset_password_token = Undefined /\ user.reset_password_token_expires = NoDate

\* C11 as stated: a successful confirmEmail or resetPassword clears the
\* account's code fields, and the same code submitted again, with no code
\* generated in between, is rejected: after a successful resetPassword no
\* account is found by the code it consumed.
C11_Original ==
    [][/\ (last'.op = "confirmEmail" /\ last'.res.status = OK)
          => NoVerifyCode(users'[last'.email])
       /\ (last'.op = "resetPassword" /\ last'.res.status = OK)
          => /\ NoResetCode(users'[last'.email])
             /\ \A id \in DOMAIN users' :
                   users'[id].reset_password_token # last'.code]_vars

\* C11, account by account: a successful confirmEmail or resetPassword clears
\* the code fields of the account it acted on; a request is accepted only
\* against an account whose stored code is the submitted one, so never
\* against an account whose code is cleared; and a cleared code field gets a
\* value only in a step that generates a code for that account.
C11_SingleUsePerAccount ==
    [][/\ (last'.op = "confirmEmail" /\ last'.res.status = OK)
          => /\ NoVerifyCode(users'[last'.email])
             /\ users[last'.email].verify_email_token = last'.code
             /\ last'.code # Undefined
       /\ (last'.op = "resetPassword" /\ last'.res.status = OK)
          => /\ NoResetCode(users'[last'.email])
             /\ users[last'.email].reset_password_token = last'.code
             /\ last'.code # Undefined
             /\ \A id \in DOMAIN users \ {last'.email} : users'[id] = users[id]
       /\ \A id \in DOMAIN users :
             /\ (/\ users[id].verify_email_token = Undefined
                 /\ users'[id].verify_email_token # Undefined)
                => /\ last'.op = "regenerateEmailCode"
                   /\ last'.email = id
                   /\ users'[id].verify_email_token = last'.res.mailed
             /\ (/\ users[id].reset_password_token = Undefined
                 /\ users'[id].reset_password_token # Undefined)
                => /\ last'.op = "requestPasswordReset"
                   /\ last'.email = id
                   /\ users'[id].reset_password_token = last'.res.mailed]_vars

\* A code is refused after an account was reset and its code cleared, no
\* account holding the submitted code.
C11_Witness ==
    /\ last.op = "resetPassword"
    /\ last.res.status = BAD_REQUEST
    /\ last.code \in GeneratedCodes
    /\ last.password \in Passwords
    /\ \E id \in DOMAIN users :
          users[id].password = hash(last.password) /\ NoResetCode(users[id])
    /\ \A id \in DOMAIN users : users[id].reset_password_token # last.code

----------------------------------------------------------------------------
\* The response issues a token: a full-access one or a temporary one.
IssuesToken(res) ==
    IsFullAccess(res.token) \/ IsFullAccess(res.cookie) \/ IsTemporary(res.tempToken)

\* C12: a successful resetPassword leaves the account with a hash the new
\* password verifies against and the old one, when different, does not; the
\* hash changes in no other step; a sign-in is answered 401 without a token
\* when its password does not verify against the stored hash and with a
\* token when it does; disableTwoFactor answers 401 and changes nothing when
\* its password does not verify.
C12_OldPasswordRetired ==
    [][/\ (last'.op = "resetPassword" /\ last'.res.status = OK)
          => LET id == last'.email
             IN /\ verify(users'[id].password, last'.password)
                /\ \A old \in Passwords :
                      (verify(users[id].password, old) /\ old # last'.password)
                      => ~verify(users'[id].password, old)
       /\ \A id \in DOMAIN users :
             users'[id].password # users[id].password
             => /\ last'.op = "resetPassword"
                /\ last'.res.status = OK
                /\ last'.email = id
       /\ (last'.op = "loginUser" /\ last'.email \in DOMAIN users
             /\ last'.password \in Passwords)
          => IF users[last'.email].password = hash(last'.password)
             THEN last'.res.status \in {OK, CREATED} /\ IssuesToken(last'.res)
             ELSE last'.res.status = UNAUTHORIZED /\ NoTokenIn(last'.res)
       /\ (last'.op = "disableTwoFactor" /\ Authenticated(last')
             /\ last'.password \in Passwords
             /\ users[last'.email].password # hash(last'.password))
          => last'.res.status = UNAUTHORIZED /\ users' = users]_vars

\* A sign-in with the sign-up password after the account was reset to
\* another one.
C12_Witness ==
    /\ last.op = "loginUser"
    /\ last.email \in DOMAIN users
    /\ last.password = "Str0ng!Pass"
    /\ users[last.email].password = hash("N3w!Passw0rd")
    /\ last.res.status = UNAUTHORIZED

\* C13: regenerateEmailCode answers 400 and changes nothing on a verified
\* account; on an unverified one it stores the code it mails with the expiry
\* now + 5 minutes and changes nothing else; and confirmEmail accepts no code
\* but the stored one.
C13_Regenerate ==
    [][/\ (last'.op = "regenerateEmailCode" /\ Authenticated(last')
             /\ last'.email \in DOMAIN users)
          => LET id == last'.email
             IN IF users[id].is_verified
                THEN last'.res.status = BAD_REQUEST /\ users' = users
                ELSE /\ last'.res.status = OK
                     /\ last'.res.mailed \in GeneratedCodes
                     /\ users' = [users EXCEPT
                           ![id].verify_email_token = last'.res.mailed,
                           ![id].verify_email_token_expires = now + 5]
       /\ (last'.op = "confirmEmail" /\ last'.res.status = OK)
          => last'.code = users[last'.email].verify_email_token]_vars

\* The code of the sign-up is refused once another code was generated at a
\* later instant, within the validity of the new one.
C13_Witness ==
    /\ last.op = "confirmEmail"
    /\ Authenticated(last)
    /\ last.res.status = UNAUTHORIZED
    /\ last.code \in GeneratedCodes
    /\ users[last.email].verify_email_token \in GeneratedCodes \ {last.code}
    /\ users[last.email].verify_email_token_expires > VerifyCodeTtl
    /\ now <= users[last.email].verify_email_token_expires

\* C14: a sign-in for an address without an account and a sign-in with a
\* password that does not verify get one and the same response: 401, the
\* message "Invalid email or password", no token, no account data.
C14_NoEnumerationAtSignIn ==
    [][(/\ last'.op = "loginUser"
        /\ last'.email \in Emails
        /\ last'.password \in Passwords
        /\ \/ last'.email \notin DOMAIN users
           \/ users[last'.email].password # hash(last'.password))
       => /\ last'.res.status = UNAUTHORIZED
          /\ last'.res.message = "Invalid email or password"
          /\ NoTokenIn(last'.res)
          /\ last'.res.user = "none"
          /\ last'.res.mailed = NoCode]_vars

C14_Witness ==
    /\ last.op = "loginUser"
    /\ last.email \in DOMAIN users
    /\ last.password \in Passwords
    /\ users[last.email].password # hash(last.password)
    /\ last.res.status = UNAUTHORIZED
    /\ last.res.message = "Invalid email or password"

\* C15 as stated: requestPasswordReset answers 200 with the same message
\* whether or not the address belongs to an account.
C15_Original ==
    [][(last'.op = "requestPasswordReset" /\ last'.email \in Emails)
       => /\ last'.res.status = OK
          /\ last'.res.message = "Password reset instructions sent to your email"]_vars

\* C16: a well-formed sign-up for an address that has an account is answered
\* 409; the accounts are unchanged, no token is in the body or a cookie and no
\* mail is dispatched.
C16_DuplicateSignUp ==
    [][(/\ last'.op = "createUser"
        /\ last'.email \in DOMAIN users
        /\ last'.password \in Passwords)
       => /\ last'.res.status = CONFLICT
          /\ users' = users
          /\ NoTokenIn(last'.res)
          /\ last'.res.mailed = NoCode
          /\ last'.res.user = "none"
          /\ jar' = jar]_vars

\* A second sign-up for the address of an account that has 2FA enabled.
C16_Witness ==
    /\ last.op = "createUser"
    /\ last.email \in DOMAIN users
    /\ last.res.status = CONFLICT
    /\ users[last.email].two_factor.enabled

----------------------------------------------------------------------------
\* C17 as stated: a sign-up that fails after its transaction started (in the
\* referrer lookup, the save or the commit) persists no account and lets no
\* full-access token reach the caller, in the body or as a cookie.
C17_Original ==
    [][(/\ last'.op = "createUser"
        /\ last'.failure \in {ReferrerFailure, SaveFailure, CommitFailure})
       => /\ users' = users
          /\ last'.res.status = INTERNAL_ERROR
          /\ NoTokenIn(last'.res)]_vars

\* C18: when the send of the mail fails in sign-up, regenerate-email-code,
\* request-password-reset or confirm-email, the request is answered with its
\* success status, the account is stored as it is when the send succeeds, and
\* the failure is in the error log.
C18_MailFailureKeepsOutcome ==
    [][last'.failure = MailFailure
       => LET id == last'.email
          IN /\ last'.logged = UnhandledRejection
             /\ last'.op \in {"createUser", "regenerateEmailCode",
                               "requestPasswordReset", "confirmEmail"}
             /\ last'.op = "createUser"
                   => /\ last'.res.status = CREATED
                      /\ IsFullAccess(last'.res.token)
                      /\ id \notin DOMAIN users
                      /\ \E c \in GeneratedCodes :
                            users' = (id :> NewUser(id, hash(last'.password), c)) @@ users
             /\ last'.op = "regenerateEmailCode"
                   => /\ last'.res.status = OK
                      /\ \E c \in GeneratedCodes :
                            users' = [users EXCEPT
                               ![id].verify_email_token = c,
                               ![id].verify_email_token_expires = now + 5]
             /\ last'.op = "requestPasswordReset"
                   => /\ last'.res.status = OK
                      /\ \E c \in GeneratedCodes :
                            users' = [users EXCEPT
                               ![id].reset_password_token = c,
                               ![id].reset_password_token_expires = now + 15]
             /\ last'.op = "confirmEmail"
                   => /\ last'.res.status = OK
                      /\ users' = [users EXCEPT
                            ![id].is_verified = TRUE,
                            ![id].verify_email_token = Undefined,
                            ![id].verify_email_token_expires = NoDate]]_vars

\* A password reset request whose mail could not be sent.
C18_Witness ==
    /\ last.op = "requestPasswordReset"
    /\ last.failure = MailFailure
    /\ last.res.status = OK
    /\ last.res.mailed = NoCode
    /\ users[last.email].reset_password_token \in GeneratedCodes
    /\ users[last.email].reset_password_token_expires = now + 15

----------------------------------------------------------------------------
\* C19: a temporary token expires 5 minutes after its issue; from then on
\* verifyLoginWithTwoFactor answers 401 to it and issues no token, whatever
\* the code and the 2FA state of the account, and it completes a sign-in only
\* before.
C19_TempTokenFiveMinutes ==
    [][(/\ last'.op = "verifyLoginWithTwoFactor"
        /\ IsTemporary(last'.bearer)
        /\ last'.totp # NoTotp)
       => /\ last'.bearer.exp = last'.bearer.iat + 5
          /\ now >= last'.bearer.iat + 5
                => /\ last'.res.status = UNAUTHORIZED
                   /\ NoTokenIn(last'.res)
                   /\ jar' = jar
          /\ last'.res.status = OK => now < last'.bearer.iat + 5]_vars

\* The token is refused at its expiry with a correct code, 2FA still enabled.
C19_Witness ==
    /\ last.op = "verifyLoginWithTwoFactor"
    /\ IsTemporary(last.bearer)
    /\ now >= last.bearer.iat + 5
    /\ users[last.bearer.userId].two_factor.enabled
    /\ last.totp \in AcceptableTotp(users[last.bearer.userId].two_factor.secret)
    /\ last.res.status = UNAUTHORIZED

----------------------------------------------------------------------------
\* C20 as stated: in every reachable state, also of the behaviours in which
\* the 2FA handlers interleave between their find and their save, an account
\* with two_factor.enabled = true has a secret stored.
C20_Original ==
    \A e \in DOMAIN users :
        users[e].two_factor.enabled => users[e].two_factor.secret # NoSecret

----------------------------------------------------------------------------
\* A code field and its expiry are both present or both absent.
Paired(token, expires) == (token = Undefined) <=> (expires = NoDate)

\* C21 (as stated): on every account, in every state reached by sign-up,
\* confirm-email, regenerate-email-code, request-password-reset and
\* reset-password running side by side, verify_email_token and
\* verify_email_token_expires are both present or both absent, and so are
\* reset_password_token and reset_password_token_expires.
C21_Original ==
    \A id \in DOMAIN users :
        /\ Paired(users[id].verify_email_token, users[id].verify_email_token_expires)
        /\ Paired(users[id].reset_password_token,
                  users[id].reset_password_token_expires)

\* C22: the role gate that reads the store decides on the role the account has
\* in the store when the request arrives: a request with a valid token of an
\* existing account passes when that role is one of the required roles and is
\* answered 403 otherwise, whatever the role was when the token was issued.
C22_StoredRoleDecides ==
    [][(/\ last'.op = "checkRole"
        /\ last' # last
        /\ Authenticated(last')
        /\ last'.email \in DOMAIN users)
       => last'.res.status =
              IF users[last'.email].role \in last'.roles THEN NEXT ELSE FORBIDDEN]_vars

\* A token issued at sign-up, when its account had the role USER, passes the
\* gate for ADMIN once the stored role is ADMIN.
C22_Witness ==
    /\ last.op = "checkRole"
    /\ Authenticated(last)
    /\ last.email \in DOMAIN users
    /\ users[last.email].role = UserRoleADMIN
    /\ last.roles = {UserRoleADMIN}
    /\ last.bearer.iat < now
    /\ last.res.status = NEXT

\* The tokens a response hands out: in its body, as its cookie, as tempToken.
TokensOf(res) == {t \in {res.token, res.cookie, res.tempToken} : t.sig = "valid"}

\* C23 (as stated): every token the server issues carries the issuer claim
\* of the server, so that a verification that requires the issuer can reject
\* a token whose issuer is absent or another.
C23_Original == \A t \in TokensOf(last.res) : t.iss = jwtConfigIssuer

\* C24 (as stated): every sign-in with a correct e-mail and password is
\* answered with status 200 and a body that holds a full-access token or a
\* temporary token; so is the sign-in of an account whose role requires 2FA
\* and that has not enabled it.
C24_Original ==
    [][(/\ last'.op = "loginUser"
        /\ last' # last
        /\ last'.email \in DOMAIN users
        /\ verify(users[last'.email].password, last'.password))
       => /\ last'.res.status = OK
          /\ IsFullAccess(last'.res.token) \/ IsTemporary(last'.res.tempToken)]_vars

\* C25: the account a sign-up creates is unverified, holds a verify code that
\* is a number from 100000 to 999999 and expires 5 minutes after the creation,
\* holds no reset code, has 2FA disabled and no secret, and has the role USER
\* whatever role the body names; the response holds a full-access token of
\* the account.
C25_SignUpDefaults ==
    [][(/\ last'.op = "createUser"
        /\ last' # last
        /\ last'.res.status = CREATED)
       => LET user == users'[last'.email]
          IN /\ last'.email \notin DOMAIN users
             /\ ~user.is_verified
             /\ \E r \in RandomSamples :
                   /\ randomCode(r) \in 100000..999999
                   /\ user.verify_email_token = ToString(randomCode(r))
             /\ user.verify_email_token_expires = now + VerifyCodeTtl
             /\ NoResetCode(user)
             /\ user.two_factor = [enabled |-> FALSE, secret |-> NoSecret]
             /\ user.role = UserRoleUSER
             /\ IsFullAccess(last'.res.token)
             /\ last'.res.token.userId = last'.email]_vars

\* A sign-up whose body names the role ADMIN has created a USER account.
C25_Witness ==
    /\ last.op = "createUser"
    /\ last.res.status = CREATED
    /\ last.role = UserRoleADMIN
    /\ users[last.email].role = UserRoleUSER
    /\ ~users[last.email].is_verified
    /\ IsFullAccess(last.res.token)

\* C26: a confirmEmail that is rejected leaves every account as it was, so the
\* stored code and its expiry are kept; and whatever submissions were
\* rejected before, the stored code submitted while now <= its expiry is
\* accepted and the account becomes verified.
C26_RejectedConfirmKeeps ==
    [][(/\ last'.op = "confirmEmail"
        /\ last' # last
        /\ Authenticated(last')
        /\ last'.email \in DOMAIN users)
       => LET id == last'.email
          IN /\ last'.res.status # OK => users' = users /\ proven' = proven
             /\ (/\ users[id].verify_email_token # Undefined
                 /\ users[id].verify_email_token = last'.code
                 /\ now <= users[id].verify_email_token_expires)
                => last'.res.status = OK /\ users'[id].is_verified]_vars

\* A wrong code was rejected and the account still holds its code, unexpired.
C26_Witness ==
    /\ last.op = "confirmEmail"
    /\ Authenticated(last)
    /\ last.res.status = UNAUTHORIZED
    /\ last.code \in GeneratedCodes
    /\ ~users[last.email].is_verified
    /\ users[last.email].verify_email_token \in GeneratedCodes \ {last.code}
    /\ now <= users[last.email].verify_email_token_expires

\* C27: the password stored by a sign-up and by a password reset is the hash
\* of the password submitted: it verifies against that password and is not
\* that password; and no stored password is ever empty.
C27_PasswordHashed ==
    [][/\ (/\ last' # last
           /\ \/ last'.op = "createUser" /\ last'.res.status = CREATED
              \/ last'.op = "resetPassword" /\ last'.res.status = OK)
          => /\ verify(users'[last'.email].password, last'.password)
             /\ users'[last'.email].password # last'.password
       /\ \A id \in DOMAIN users' : users'[id].password # NoPassword]_vars

\* A password reset has stored the hash of the new password.
C27_Witness ==
    /\ last.op = "resetPassword"
    /\ last.res.status = OK
    /\ last.password = "N3w!Passw0rd"
    /\ verify(users[last.email].password, last.password)
    /\ users[last.email].password # last.password

\* C28: where a TOTP code is verified, in the enabling of 2FA and in the 2FA
\* login step, the submitted code is accepted exactly when it is the code of
\* the stored secret for the current time step, the step before it or the
\* step after it; the code of the stored secret for a step further away is
\* answered 401.
C28_TotpWindow ==
    [][LET id == last'.email
       IN (/\ last' # last
           /\ last'.totp # NoTotp
           /\ id \in DOMAIN users
           /\ users[id].two_factor.secret # NoSecret
           /\ \/ last'.op = "verifyAndEnableTwoFactor" /\ Authenticated(last')
              \/ /\ last'.op = "verifyLoginWithTwoFactor"
                 /\ IsTemporary(last'.bearer)
                 /\ Unexpired(last'.bearer)
                 /\ users[id].two_factor.enabled)
          => LET secret == users[id].two_factor.secret
             IN /\ last'.res.status = OK
                   <=> \E d \in {-1, 0, 1} : last'.totp = totp(secret, currentStep + d)
                /\ \A d \in TotpOffsets \ {-1, 0, 1} :
                      last'.totp = totp(secret, currentStep + d)
                      => last'.res.status = UNAUTHORIZED]_vars

\* The 2FA login step has refused the code the stored secret had two steps ago.
C28_Witness ==
    /\ last.op = "verifyLoginWithTwoFactor"
    /\ IsTemporary(last.bearer)
    /\ Unexpired(last.bearer)
    /\ last.email \in DOMAIN users
    /\ users[last.email].two_factor.enabled
    /\ users[last.email].two_factor.secret # NoSecret
    /\ last.totp = totp(users[last.email].two_factor.secret, currentStep - 2)
    /\ last.res.status = UNAUTHORIZED

\* C29 (as stated): of two resetPassword requests that run side by side with
\* the same valid code, at most one succeeds: a reset is answered 200 only
\* while the account it is for still holds the submitted code.
C29_Original ==
    [][(/\ last'.op = "resetPassword"
        /\ inflight' # inflight
        /\ last'.res.status = OK)
       => users[last'.email].reset_password_token = last'.code]_vars

\* C30 (as stated): of two sign-ups that run side by side with the same
\* address, one creates the account and is answered 201 with a token, and the
\* other is answered 409: no sign-up for an address that is taken when it
\* comes to save is answered otherwise.
C30_Original ==
    [][(/\ last'.op = "createUser"
        /\ inflight' # inflight
        /\ last'.email \in DOMAIN users)
       => last'.res.status = CONFLICT]_vars

\* C31 (as stated): resetPassword replaces the password of the account the
\* submitted code was generated for and of no other, also when several
\* accounts hold unexpired codes of equal value: the account a successful
\* reset changes is the one account the code was issued to.
C31_Original ==
    [][(/\ last'.op = "resetPassword"
        /\ last' # last
        /\ last'.res.status = OK)
       => findByResetToken(last'.code) = {last'.email}]_vars

\* C32: the 2FA login step hands out a full-access token only when the account
\* of the temporary token exists and has, when the request is handled, 2FA
\* enabled with a stored secret; a request with a valid temporary token for an
\* account whose 2FA was disabled since is answered 400 with no token.
C32_NeedsTwoFactorNow ==
    [][(last'.op = "verifyLoginWithTwoFactor" /\ last' # last)
       => LET id == last'.bearer.userId
          IN /\ TokensOf(last'.res) # {}
                => /\ id \in DOMAIN users
                   /\ users[id].two_factor.enabled
                   /\ users[id].two_factor.secret # NoSecret
             /\ (/\ IsTemporary(last'.bearer)
                 /\ Unexpired(last'.bearer)
                 /\ last'.totp # NoTotp
                 /\ id \in DOMAIN users
                 /\ ~users[id].two_factor.enabled)
                => /\ last'.res.status = BAD_REQUEST
                   /\ TokensOf(last'.res) = {}
                   /\ jar' = jar]_vars

\* A temporary token still valid, sent with a code of the secret stored now,
\* is answered 400: 2FA was disabled, and a secret generated again, since
\* the token was issued.
C32_Witness ==
    /\ last.op = "verifyLoginWithTwoFactor"
    /\ IsTemporary(last.bearer)
    /\ Unexpired(last.bearer)
    /\ last.bearer.userId \in DOMAIN users
    /\ ~users[last.bearer.userId].two_factor.enabled
    /\ users[last.bearer.userId].two_factor.secret # NoSecret
    /\ last.totp \in AcceptableTotp(users[last.bearer.userId].two_factor.secret)
    /\ last.res.status = BAD_REQUEST

\* C33 (as stated): a temporary token yields one full-access token: presented
\* again after verifyLoginWithTwoFactor succeeded with it, within its lifetime
\* and with a valid TOTP code, it is rejected.
C33_Original ==
    [][(/\ last'.op = "verifyLoginWithTwoFactor"
        /\ last' # last
        /\ last'.again)
       => /\ last'.res.status \in {UNAUTHORIZED, FORBIDDEN}
          /\ TokensOf(last'.res) = {}]_vars

\* C33, as the handler decides: a temporary token that was exchanged before
\* is treated as one that was not.  Within its lifetime, with a code valid for
\* the stored secret and 2FA still enabled, it yields a full-access token
\* again; from its expiry on it is answered 401 with no token.
C33_TempTokenUntilExpiry ==
    [][(/\ last'.op = "verifyLoginWithTwoFactor"
        /\ last' # last
        /\ last'.again
        /\ last'.totp # NoTotp)
       => LET id == last'.bearer.userId
          IN IF ~Unexpired(last'.bearer)
             THEN last'.res.status = UNAUTHORIZED /\ TokensOf(last'.res) = {}
             ELSE (/\ users[id].two_factor.enabled
                   /\ users[id].two_factor.secret # NoSecret
                   /\ last'.totp \in AcceptableTotp(users[id].two_factor.secret))
                  => /\ last'.res.status = OK
                     /\ IsFullAccess(last'.res.token)
                     /\ last'.res.token.userId = id]_vars

\* A temporary token exchanged before has yielded a second full-access token,
\* later than the first.
C33_Witness ==
    /\ last.op = "verifyLoginWithTwoFactor"
    /\ last.again
    /\ last.res.status = OK
    /\ IsFullAccess(last.res.token)
    /\ last.bearer.iat < now

\* The reset code the owner of an address was mailed before the newest one,
\* when the two differ.
EarlierCodes == {jar[e].earlier : e \in {a \in Emails : jar[a].earlier # jar[a].code}}

\* C34 (as stated): after two requests for a password reset of one account,
\* resetPassword accepts the code mailed last and rejects the one mailed
\* before it, unless the two are equal.
C34_Original ==
    [][(/\ last'.op = "resetPassword"
        /\ last' # last
        /\ last'.code # NoCode
        /\ last'.code \in EarlierCodes)
       => /\ last'.res.status = BAD_REQUEST
          /\ users' = users]_vars

\* C35 (as stated): no response of sign-up, of sign-in, of the 2FA login
\* step or of confirm-email holds the password hash of the account.
C35_Original ==
    last.op \in {"createUser", "loginUser", "verifyLoginWithTwoFactor", "confirmEmail"}
    => last.res.user # "withPassword"

\* C36 (as stated): isProUser lets a request with the token of an existing
\* account through exactly when the stored account has is_premium = true, and
\* answers 403 when it is false.
C36_Original ==
    [][(/\ last'.op = "isProUser"
        /\ last' # last
        /\ Authenticated(last')
        /\ last'.email \in DOMAIN users)
       => last'.res.status =
              IF users[last'.email].is_premium THEN NEXT ELSE FORBIDDEN]_vars

\* C37: the token middleware and the error middleware write at most one
\* response for a request; protect without a bearer token, and the error
\* handler in production mode with an operational error, each make one
\* res.status(..).json(..) call.
C37_Original == Len(last.written) <= 1

\* C38: no account is removed; an account that is verified stays verified
\* under every operation; and an account becomes verified only by a
\* confirmEmail of that account answered 200 (a new account is not verified).
C38_VerifiedForGood ==
    [][/\ DOMAIN users \subseteq DOMAIN users'
       /\ \A e \in DOMAIN users' :
             LET was == e \in DOMAIN users /\ users[e].is_verified
             IN /\ was => users'[e].is_verified
                /\ (users'[e].is_verified /\ ~was)
                   => /\ e \in DOMAIN users
                      /\ last'.op = "confirmEmail"
                      /\ last'.email = e
                      /\ last'.res.status = OK]_vars

\* A verified account had its password reset, and is verified still.
C38_Witness ==
    /\ last.op = "resetPassword"
    /\ last.res.status = OK
    /\ last.email \in DOMAIN users
    /\ users[last.email].is_verified
    /\ verify(users[last.email].password, last.password)

====
